---- MODULE Spec2Model ----
(***************************************************************************)
(* State-machine model of the WebSocket framing layer of go-websocket      *)
(* (package websocket: type Conn, messageWriter, messageReader).           *)
(*                                                                         *)
(* The connection is the record c, whose fields carry the names of the     *)
(* fields of the Go struct Conn.  c.conn is the byte sequence written so   *)
(* far to the transport (net.Conn), c.br the inbound bytes not yet read    *)
(* from the buffered reader.  writeBuf holds the live payload bytes        *)
(* writeBuf[maxFrameHeaderSize:writePos]; the 14 header bytes in front of  *)
(* them are built by PutHeader at each flush.                              *)
(***************************************************************************)
EXTENDS Integers, Sequences, FiniteSets, TLC

VARIABLES c, netUp, peerClosed, writers, readers, ret, rpc, wmsg, rmsg, peer, sent

vars == <<c, netUp, peerClosed, writers, readers, ret, rpc, wmsg, rmsg, peer, sent>>

(***************************************************************************)
(* Program constants.                                                      *)
(***************************************************************************)
OpContinuation == 0
OpText == 1
OpBinary == 2
OpClose == 8
OpPing == 9
OpPong == 10
NoOp == -1

CloseNormalClosure == 1000
CloseGoingAway == 1001
CloseProtocolError == 1002
CloseInvalidFramePayloadData == 1007
CloseMessageTooBig == 1009

maxFrameHeaderSize == 14
\* the write buffer size Upgrade gives NewServerConn
upgradeWriteBufSize == 4096
maxControlFramePayloadSize == 125
finalBit == 128

(***************************************************************************)
(* Bounds of the model.                                                    *)
(***************************************************************************)
\* writeBufSize argument of NewServerConn (4096 in Upgrade), scaled down
WriteBufSize == 2
\* value of writeSeq up to which the application calls NextWriter
MaxWriteSeq == 2
\* Write/WriteString calls the application makes on one valid writer
MaxWrites == 2
\* longest payload of a data frame the peer sends
MaxPayload == 5
\* longest data message the peer sends, in bytes
MaxMsgLen == 7
\* value of readSeq up to which the application calls NextReader
MaxReadSeq == 3
\* frames the tasks write to the transport together
MaxFrames == 3

(***************************************************************************)
(* Byte helpers.                                                           *)
(***************************************************************************)
RECURSIVE XorBits(_, _, _)
XorBits(a, b, k) ==
  IF k = 0 THEN 0
  ELSE (((a % 2) + (b % 2)) % 2) + (2 * XorBits(a \div 2, b \div 2, k - 1))

\* b[i] ^= key on bytes
Xor(a, b) == XorBits(a, b, 8)

\* byte(x) conversion of Go
Byte(x) == x % 256

\* binary.BigEndian.PutUint16 / PutUint64 (value already reduced to its width)
BE16(n) == <<((n \div 256) % 256), (n % 256)>>

RECURSIVE BEn(_, _)
BEn(n, k) == IF k = 0 THEN <<>> ELSE Append(BEn(n \div 256, k - 1), (n % 256))

BE64(n) == BEn(n, 8)

\* binary.BigEndian.Uint16 / Uint64
RECURSIVE FromBE(_)
FromBE(b) ==
  IF Len(b) = 0 THEN 0
  ELSE (256 * FromBE(SubSeq(b, 1, Len(b) - 1))) + b[Len(b)]

\* the first n letters: the payload the application or the peer hands over
Pay(n) == [i \in 1..n |-> 64 + i]

(***************************************************************************)
(* Errors: one record shape for all of them.                               *)
(***************************************************************************)
Err(kind, msg) == [kind |-> kind, msg |-> msg, code |-> 0, reason |-> <<>>]
Nil == Err("nil", "")
ErrCloseSent == Err("ErrCloseSent", "websocket: close sent")
ErrTransport == Err("transport", "")
ErrBadOpcode == Err("error", "websocket: bad opcode")
ErrInvalidControl == Err("error", "websocket: invalid control frame")
ErrClosedWriter == Err("error", "websocket: closed writer")
EOF == Err("io.EOF", "")
ErrUnexpectedEOF == Err("io.ErrUnexpectedEOF", "")
ErrProtocol(msg) == Err("protocol", msg)
ErrPeerClose(code, reason) ==
  [kind |-> "peer", msg |-> "websocket: peer sent", code |-> code, reason |-> reason]
\* no return: the loop of Write never ends
Hang == Err("hang", "")

(***************************************************************************)
(* Construction.  Tasks are the goroutines that use one connection: the    *)
(* writer and the reader (writePump and readPump of the chat example) and  *)
(* two that call SendClose.  c.mu[t] holds the buffers task t has still to *)
(* write inside Conn.write, where it holds the mutex; c.order is the bytes *)
(* of the frames in the order the mutex was taken.                         *)
(***************************************************************************)
Tasks == {"writer", "reader", "closer1", "closer2"}

NewServerConn(writeBufSize) ==
  [ conn |-> <<>>,
    mu |-> [t \in Tasks |-> <<>>],
    order |-> <<>>,
    nwrite |-> 0,
    closeSent |-> FALSE,
    writeBufLen |-> writeBufSize + maxFrameHeaderSize,
    writeBuf |-> <<>>,
    writePos |-> maxFrameHeaderSize,
    writeOpCode |-> NoOp,
    writeSeq |-> 0,
    readErr |-> Nil,
    br |-> <<>>,
    readLength |-> 0,
    readFinal |-> TRUE,
    readSeq |-> 0,
    savedPong |-> <<>>,
    hasPong |-> FALSE,
    maskPos |-> 0,
    maskKey |-> <<0, 0, 0, 0>>,
    panic |-> "" ]

(***************************************************************************)
(* Write methods.  With(x, F) is F(x): it names a result that is used      *)
(* more than once.                                                         *)
(***************************************************************************)
With(x, F(_)) == F(x)

\* c.conn.Write(buf) for each non-empty buf, stopping at the first error; a
\* transport that fails takes no byte
RECURSIVE connWrite(_, _)
connWrite(s, bufs) ==
  IF Len(bufs) = 0 THEN [c |-> s, err |-> Nil]
  ELSE IF Len(Head(bufs)) > 0
       THEN IF netUp
            THEN connWrite([s EXCEPT !.conn = s.conn \o Head(bufs)], Tail(bufs))
            ELSE [c |-> s, err |-> ErrTransport]
       ELSE connWrite(s, Tail(bufs))

\* Conn.write without its test of closeSent
writeAfterClose(s, opCode, bufs) ==
  connWrite([s EXCEPT !.nwrite = @ + 1, !.closeSent = @ \/ opCode = OpClose], bufs)

\* Conn.write; nwrite counts the calls of it
write(s, opCode, bufs) ==
  IF s.closeSent THEN [c |-> [s EXCEPT !.nwrite = @ + 1], err |-> ErrCloseSent]
  ELSE connWrite([s EXCEPT !.nwrite = @ + 1, !.closeSent = @ \/ opCode = OpClose], bufs)

\* the frame SendClose builds
closeFrameOf(closeCode, message) ==
  <<finalBit + OpClose, Byte(Len(message) + 2)>> \o BE16(closeCode % 65536) \o message

\* SendClose writing its frame as if it were a data frame
SendCloseUnmarked(s, closeCode, message) ==
  write(s, OpText, <<closeFrameOf(closeCode, message)>>)

SendCloseOp(s, closeCode, message) ==
  write(s, OpClose, <<closeFrameOf(closeCode, message)>>)

\* the header with the 16-bit length for every length over 125
PutHeader16(b0, length) ==
  LET zero == [i \in 1..maxFrameHeaderSize |-> 0]
      put(buf, at, bytes) ==
        [i \in 1..maxFrameHeaderSize |->
           IF i > at /\ i <= at + Len(bytes) THEN bytes[i - at] ELSE buf[i]]
  IN IF length > 125
     THEN [pos |-> 10, buf |-> put(zero, 10, <<b0, 126>> \o BE16(length % 65536))]
     ELSE [pos |-> 12, buf |-> put(zero, 12, <<b0, Byte(length)>>)]

\* The header flushFrame writes into writeBuf[0:14] (taken as zero before),
\* and the offset pos it starts at.
PutHeader(b0, length) ==
  LET zero == [i \in 1..maxFrameHeaderSize |-> 0]
      put(buf, at, bytes) ==
        [i \in 1..maxFrameHeaderSize |->
           IF i > at /\ i <= at + Len(bytes) THEN bytes[i - at] ELSE buf[i]]
  IN IF length >= 65536
     THEN [pos |-> 4, buf |-> put(zero, 4, <<b0, 127>> \o BE64(length))]
     ELSE IF length > 125
     THEN [pos |-> 10, buf |-> put(zero, 10, <<b0, 126>> \o BE16(length % 65536))]
     ELSE [pos |-> 12, buf |-> put(zero, 12, <<b0, Byte(length)>>)]

\* c.writeBuf[pos:c.writePos] once the header is in place
headerAndPayload(s, b0, length) ==
  With(PutHeader(b0, length),
       LAMBDA h : SubSeq(h.buf, h.pos + 1, maxFrameHeaderSize) \o s.writeBuf)

\* flushFrame that leaves writePos where it is after a final frame
flushFrameKeepPos(s, final, extra) ==
  IF s.writeOpCode \in {OpClose, OpPing}
     /\ (~final \/ s.writePos - maxFrameHeaderSize + Len(extra) > maxControlFramePayloadSize)
  THEN [c |-> [s EXCEPT !.writeSeq = s.writeSeq + 1,
                        !.writeOpCode = NoOp,
                        !.writePos = maxFrameHeaderSize,
                        !.writeBuf = <<>>],
        err |-> ErrInvalidControl]
  ELSE With(write(s, s.writeOpCode,
                  << headerAndPayload(s,
                       Byte(s.writeOpCode) + (IF final THEN finalBit ELSE 0),
                       s.writePos - maxFrameHeaderSize + Len(extra)),
                     extra >>),
            LAMBDA w :
              [c |-> [w.c EXCEPT !.writePos = IF final THEN s.writePos
                                              ELSE maxFrameHeaderSize,
                                 !.writeBuf = <<>>,
                                 !.writeOpCode = IF final THEN NoOp ELSE OpContinuation,
                                 !.writeSeq = IF final THEN s.writeSeq + 1 ELSE s.writeSeq],
               err |-> w.err])

\* flushFrame without its check for invalid control frames
flushFrameAnyControl(s, final, extra) ==
  With(write(s, s.writeOpCode,
             << headerAndPayload(s,
                  Byte(s.writeOpCode) + (IF final THEN finalBit ELSE 0),
                  s.writePos - maxFrameHeaderSize + Len(extra)),
                extra >>),
       LAMBDA w :
         [c |-> [w.c EXCEPT !.writePos = maxFrameHeaderSize,
                            !.writeBuf = <<>>,
                            !.writeOpCode = IF final THEN NoOp ELSE OpContinuation,
                            !.writeSeq = IF final THEN s.writeSeq + 1 ELSE s.writeSeq],
          err |-> w.err])

\* flushFrame that keeps the opcode of the message after a non-final frame
flushFrameSameOpCode(s, final, extra) ==
  IF s.writeOpCode \in {OpClose, OpPing}
     /\ (~final \/ s.writePos - maxFrameHeaderSize + Len(extra) > maxControlFramePayloadSize)
  THEN [c |-> [s EXCEPT !.writeSeq = s.writeSeq + 1,
                        !.writeOpCode = NoOp,
                        !.writePos = maxFrameHeaderSize,
                        !.writeBuf = <<>>],
        err |-> ErrInvalidControl]
  ELSE With(write(s, s.writeOpCode,
                  << headerAndPayload(s,
                       Byte(s.writeOpCode) + (IF final THEN finalBit ELSE 0),
                       s.writePos - maxFrameHeaderSize + Len(extra)),
                     extra >>),
            LAMBDA w :
              [c |-> [w.c EXCEPT !.writePos = maxFrameHeaderSize,
                                 !.writeBuf = <<>>,
                                 !.writeOpCode = IF final THEN NoOp ELSE s.writeOpCode,
                                 !.writeSeq = IF final THEN s.writeSeq + 1 ELSE s.writeSeq],
               err |-> w.err])

\* flushFrame that leaves writeSeq alone
flushFrameSameSeq(s, final, extra) ==
  IF s.writeOpCode \in {OpClose, OpPing}
     /\ (~final \/ s.writePos - maxFrameHeaderSize + Len(extra) > maxControlFramePayloadSize)
  THEN [c |-> [s EXCEPT !.writeOpCode = NoOp,
                        !.writePos = maxFrameHeaderSize,
                        !.writeBuf = <<>>],
        err |-> ErrInvalidControl]
  ELSE With(write(s, s.writeOpCode,
                  << headerAndPayload(s,
                       Byte(s.writeOpCode) + (IF final THEN finalBit ELSE 0),
                       s.writePos - maxFrameHeaderSize + Len(extra)),
                     extra >>),
            LAMBDA w :
              [c |-> [w.c EXCEPT !.writePos = maxFrameHeaderSize,
                                 !.writeBuf = <<>>,
                                 !.writeOpCode = IF final THEN NoOp ELSE OpContinuation],
               err |-> w.err])

flushFrame(s, final, extra) ==
  IF s.writeOpCode \in {OpClose, OpPing}
     /\ (~final \/ s.writePos - maxFrameHeaderSize + Len(extra) > maxControlFramePayloadSize)
  THEN [c |-> [s EXCEPT !.writeSeq = s.writeSeq + 1,
                        !.writeOpCode = NoOp,
                        !.writePos = maxFrameHeaderSize,
                        !.writeBuf = <<>>],
        err |-> ErrInvalidControl]
  ELSE With(write(s, s.writeOpCode,
                  << headerAndPayload(s,
                       Byte(s.writeOpCode) + (IF final THEN finalBit ELSE 0),
                       s.writePos - maxFrameHeaderSize + Len(extra)),
                     extra >>),
            LAMBDA w :
              [c |-> [w.c EXCEPT !.writePos = maxFrameHeaderSize,
                                 !.writeBuf = <<>>,
                                 !.writeOpCode = IF final THEN NoOp ELSE OpContinuation,
                                 !.writeSeq = IF final THEN s.writeSeq + 1 ELSE s.writeSeq],
               err |-> w.err])

\* min(n, max) of the free space n
atMost(n, max) == IF n > max THEN max ELSE n

ncopy(s, max) ==
  IF s.writeBufLen - s.writePos <= 0
  THEN With(flushFrame(s, FALSE, <<>>),
            LAMBDA f :
              IF f.err # Nil THEN [c |-> f.c, n |-> 0, err |-> f.err]
              ELSE [c |-> f.c, n |-> atMost(f.c.writeBufLen - f.c.writePos, max),
                    err |-> Nil])
  ELSE [c |-> s, n |-> atMost(s.writeBufLen - s.writePos, max), err |-> Nil]

\* for len(p) > 0 { n, err := w.ncopy(len(p)); copy; writePos += n; p = p[n:] }
RECURSIVE copyLoop(_, _)
copyLoop(s, p) ==
  IF Len(p) = 0 THEN [c |-> s, err |-> Nil]
  ELSE With(ncopy(s, Len(p)),
            LAMBDA r :
              IF r.err # Nil THEN [c |-> r.c, err |-> r.err]
              ELSE IF r.n <= 0 THEN [c |-> r.c, err |-> Hang]
              ELSE copyLoop([r.c EXCEPT !.writeBuf = r.c.writeBuf \o SubSeq(p, 1, r.n),
                                        !.writePos = r.c.writePos + r.n],
                            SubSeq(p, r.n + 1, Len(p))))

\* (n, err) of Write and WriteString from the outcome r of their body
written(r, p) == [c |-> r.c, n |-> IF r.err # Nil THEN 0 ELSE Len(p), err |-> r.err]

\* Write that copies every p through the buffer
WriteOpBuffered(s, seq, p) ==
  IF s.writeSeq # seq THEN [c |-> s, n |-> 0, err |-> ErrClosedWriter]
  ELSE written(copyLoop(s, p), p)

\* messageWriter.Write on a handle with stamp seq
WriteOp(s, seq, p) ==
  IF s.writeSeq # seq THEN [c |-> s, n |-> 0, err |-> ErrClosedWriter]
  ELSE IF Len(p) > 2 * s.writeBufLen
  THEN written(flushFrame(s, FALSE, p), p)
  ELSE written(copyLoop(s, p), p)

\* messageWriter.WriteString
WriteStringOp(s, seq, p) ==
  IF s.writeSeq # seq THEN [c |-> s, n |-> 0, err |-> ErrClosedWriter]
  ELSE written(copyLoop(s, p), p)

\* messageWriter.Close
CloseOp(s, seq) ==
  IF s.writeSeq # seq THEN [c |-> s, err |-> ErrClosedWriter]
  ELSE flushFrame(s, TRUE, <<>>)

\* Conn.NextWriter; handle is TRUE when a messageWriter{c, c.writeSeq} is returned
NextWriterOp(s, opCode) ==
  With(IF s.writeOpCode # NoOp THEN flushFrame(s, TRUE, <<>>) ELSE [c |-> s, err |-> Nil],
       LAMBDA f :
         IF f.err # Nil THEN [c |-> f.c, handle |-> FALSE, err |-> f.err]
         ELSE IF opCode \notin {OpText, OpBinary, OpClose, OpPing}
         THEN [c |-> f.c, handle |-> FALSE, err |-> ErrBadOpcode]
         ELSE [c |-> [f.c EXCEPT !.writeOpCode = opCode], handle |-> TRUE, err |-> Nil])

(***************************************************************************)
(* Read methods.                                                           *)
(***************************************************************************)
\* var closeFrame = []byte{finalBit | OpClose, 0}
closeFrame == <<finalBit + OpClose, 0>>

\* []byte(message) of the messages handleProtocolError is called with
MessageBytes(msg) ==
  CASE msg = "unexpected reserved bits" ->
       <<117, 110, 101, 120, 112, 101, 99, 116, 101, 100, 32, 114, 101, 115,
         101, 114, 118, 101, 100, 32, 98, 105, 116, 115>>
  [] msg = "control frame length > 125" ->
       <<99, 111, 110, 116, 114, 111, 108, 32, 102, 114, 97, 109, 101, 32,
         108, 101, 110, 103, 116, 104, 32, 62, 32, 49, 50, 53>>
  [] msg = "control frame not final" ->
       <<99, 111, 110, 116, 114, 111, 108, 32, 102, 114, 97, 109, 101, 32,
         110, 111, 116, 32, 102, 105, 110, 97, 108>>
  [] msg = "message start before final message frame" ->
       <<109, 101, 115, 115, 97, 103, 101, 32, 115, 116, 97, 114, 116, 32,
         98, 101, 102, 111, 114, 101, 32, 102, 105, 110, 97, 108, 32, 109,
         101, 115, 115, 97, 103, 101, 32, 102, 114, 97, 109, 101>>
  [] msg = "continuation after final message frame" ->
       <<99, 111, 110, 116, 105, 110, 117, 97, 116, 105, 111, 110, 32, 97,
         102, 116, 101, 114, 32, 102, 105, 110, 97, 108, 32, 109, 101, 115,
         115, 97, 103, 101, 32, 102, 114, 97, 109, 101>>
  [] msg = "unknown opcode" ->
       <<117, 110, 107, 110, 111, 119, 110, 32, 111, 112, 99, 111, 100, 101>>
  [] msg = "improper masking" ->
       <<105, 109, 112, 114, 111, 112, 101, 114, 32, 109, 97, 115, 107, 105,
         110, 103>>

AfRet(s, op, err) == [c |-> s, op |-> op, err |-> err, blocked |-> FALSE]
AfBlocked(s) == [c |-> s, op |-> NoOp, err |-> Nil, blocked |-> TRUE]

\* handleProtocolError without its SendClose
handleProtocolErrorSilent(s, msg) == AfRet(s, NoOp, ErrProtocol(msg))

\* return -1, c.handleProtocolError(message): SendClose(CloseProtocolError,
\* message) with its error dropped, then the error of the message
handleProtocolError(s, msg) ==
  AfRet(SendCloseOp(s, CloseProtocolError, MessageBytes(msg)).c, NoOp, ErrProtocol(msg))

\* Conn.read(buf) with len(buf) = k: fills buf from c.br.  The call waits
\* (blocked) while the bytes are not there and the stream is still open.
read(s, k) ==
  IF Len(s.br) >= k
  THEN [c |-> [s EXCEPT !.br = SubSeq(s.br, k + 1, Len(s.br))],
        buf |-> SubSeq(s.br, 1, k), err |-> Nil, blocked |-> FALSE]
  ELSE IF ~netUp
  THEN [c |-> [s EXCEPT !.br = <<>>], buf |-> s.br, err |-> ErrTransport, blocked |-> FALSE]
  ELSE IF peerClosed
  THEN [c |-> [s EXCEPT !.br = <<>>], buf |-> s.br, err |-> ErrUnexpectedEOF, blocked |-> FALSE]
  ELSE [c |-> s, buf |-> <<>>, err |-> Nil, blocked |-> TRUE]

\* io.CopyN(ioutil.Discard, c.br, n)
discard(s, n) ==
  IF Len(s.br) >= n
  THEN [c |-> [s EXCEPT !.br = SubSeq(s.br, n + 1, Len(s.br))], err |-> Nil, blocked |-> FALSE]
  ELSE IF ~netUp
  THEN [c |-> [s EXCEPT !.br = <<>>], err |-> ErrTransport, blocked |-> FALSE]
  ELSE IF peerClosed
  THEN [c |-> [s EXCEPT !.br = <<>>], err |-> EOF, blocked |-> FALSE]
  ELSE [c |-> s, err |-> Nil, blocked |-> TRUE]

\* maskBytes starting at the first byte of the key in every call
maskBytesFromZero(s, b) ==
  [c |-> [s EXCEPT !.maskPos = (s.maskPos + Len(b)) % 4],
   b |-> [i \in 1..Len(b) |-> Xor(b[i], s.maskKey[((i - 1) % 4) + 1])]]

\* Conn.maskBytes(b): the unmasked bytes and the connection with maskPos moved
maskBytes(s, b) ==
  [c |-> [s EXCEPT !.maskPos = (s.maskPos + Len(b)) % 4],
   b |-> [i \in 1..Len(b) |-> Xor(b[i], s.maskKey[((s.maskPos + i - 1) % 4) + 1])]]

\* int64(binary.BigEndian.Uint64(b)): negative when the top bit is set
Int64FromBE(b) == IF b[1] >= 128 THEN 0 - 1 ELSE FromBE(b)

\* step 7 that sends the Pong as the writer's last frame
afControlPongByWriter(s, opCode, payload) ==
  IF opCode = OpPong
  THEN AfRet([s EXCEPT !.savedPong = payload, !.hasPong = TRUE], opCode, Nil)
  ELSE IF opCode = OpPing
  THEN AfRet([write(s, OpPong,
                    <<(<<finalBit + OpPong, Byte(Len(payload))>> \o payload)>>).c
                EXCEPT !.writeOpCode = NoOp,
                       !.writePos = maxFrameHeaderSize,
                       !.writeBuf = <<>>],
             opCode, Nil)
  ELSE AfRet(write(s, OpClose, <<closeFrame>>).c, NoOp,
             IF Len(payload) < 2 THEN EOF
             ELSE IF FromBE(SubSeq(payload, 1, 2)) \in {CloseNormalClosure, CloseGoingAway}
             THEN EOF
             ELSE ErrPeerClose(FromBE(SubSeq(payload, 1, 2)),
                               SubSeq(payload, 3, Len(payload))))

\* step 7 that keeps the Pong saved first
afControlFirstPong(s, opCode, payload) ==
  IF opCode = OpPong
  THEN AfRet(IF s.hasPong THEN s ELSE [s EXCEPT !.savedPong = payload, !.hasPong = TRUE],
             opCode, Nil)
  ELSE IF opCode = OpPing
  THEN AfRet(write(s, OpPong, <<(<<finalBit + OpPong, Byte(Len(payload))>> \o payload)>>).c,
             opCode, Nil)
  ELSE AfRet(write(s, OpClose, <<closeFrame>>).c, NoOp,
             IF Len(payload) < 2 THEN EOF
             ELSE IF FromBE(SubSeq(payload, 1, 2)) \in {CloseNormalClosure, CloseGoingAway}
             THEN EOF
             ELSE ErrPeerClose(FromBE(SubSeq(payload, 1, 2)),
                               SubSeq(payload, 3, Len(payload))))

\* step 7 with a Pong that leaves the payload of the Ping out
afControlEmptyPong(s, opCode, payload) ==
  IF opCode = OpPong
  THEN AfRet([s EXCEPT !.savedPong = payload, !.hasPong = TRUE], opCode, Nil)
  ELSE IF opCode = OpPing
  THEN AfRet(write(s, OpPong, << <<finalBit + OpPong, 0>> >>).c, opCode, Nil)
  ELSE AfRet(write(s, OpClose, <<closeFrame>>).c, NoOp,
             IF Len(payload) < 2 THEN EOF
             ELSE IF FromBE(SubSeq(payload, 1, 2)) \in {CloseNormalClosure, CloseGoingAway}
             THEN EOF
             ELSE ErrPeerClose(FromBE(SubSeq(payload, 1, 2)),
                               SubSeq(payload, 3, Len(payload))))

\* step 7 with every Close of the peer taken as the end of the stream
afControlCloseEOF(s, opCode, payload) ==
  IF opCode = OpPong
  THEN AfRet([s EXCEPT !.savedPong = payload, !.hasPong = TRUE], opCode, Nil)
  ELSE IF opCode = OpPing
  THEN AfRet(write(s, OpPong, <<(<<finalBit + OpPong, Byte(Len(payload))>> \o payload)>>).c,
             opCode, Nil)
  ELSE AfRet(write(s, OpClose, <<closeFrame>>).c, NoOp, EOF)

\* advanceFrame, step 7: process the control frame payload
afControl(s, opCode, payload) ==
  IF opCode = OpPong
  THEN AfRet([s EXCEPT !.savedPong = payload, !.hasPong = TRUE], opCode, Nil)
  ELSE IF opCode = OpPing
  THEN AfRet(write(s, OpPong, <<(<<finalBit + OpPong, Byte(Len(payload))>> \o payload)>>).c,
             opCode, Nil)
  ELSE AfRet(write(s, OpClose, <<closeFrame>>).c, NoOp,
             IF Len(payload) < 2 THEN EOF
             ELSE IF FromBE(SubSeq(payload, 1, 2)) \in {CloseNormalClosure, CloseGoingAway}
             THEN EOF
             ELSE ErrPeerClose(FromBE(SubSeq(payload, 1, 2)),
                               SubSeq(payload, 3, Len(payload))))

\* advanceFrame, step 6: read the control frame payload
afPayload(s, opCode) ==
  With(read([s EXCEPT !.readLength = 0], s.readLength),
       LAMBDA p :
         IF p.blocked THEN AfBlocked(s)
         ELSE IF p.err # Nil THEN AfRet(p.c, NoOp, p.err)
         ELSE With(maskBytes(p.c, p.buf), LAMBDA m : afControl(m.c, opCode, m.b)))

\* advanceFrame, steps 4 and 5: masking, return of the data frames
afMask(s, opCode, mask) ==
  IF ~mask THEN handleProtocolError(s, "improper masking")
  ELSE With(read([s EXCEPT !.maskPos = 0], 4),
            LAMBDA k :
              IF k.blocked THEN AfBlocked(s)
              ELSE IF k.err # Nil
              THEN AfRet([k.c EXCEPT !.maskKey =
                            [i \in 1..4 |-> IF i <= Len(k.buf) THEN k.buf[i]
                                            ELSE s.maskKey[i]]],
                         NoOp, k.err)
              ELSE IF opCode \in {OpContinuation, OpText, OpBinary}
              THEN AfRet([k.c EXCEPT !.maskKey = k.buf], opCode, Nil)
              ELSE afPayload([k.c EXCEPT !.maskKey = k.buf], opCode))

\* advanceFrame, step 3: the frame length
afLength(s, opCode, mask) ==
  IF s.readLength \in {126, 127}
  THEN With(read(s, IF s.readLength = 126 THEN 2 ELSE 8),
            LAMBDA r :
              IF r.blocked THEN AfBlocked(s)
              ELSE IF r.err # Nil THEN AfRet(r.c, NoOp, r.err)
              ELSE afMask([r.c EXCEPT !.readLength =
                             IF s.readLength = 126 THEN FromBE(r.buf)
                             ELSE Int64FromBE(r.buf)],
                          opCode, mask))
  ELSE afMask(s, opCode, mask)

\* advanceFrame, step 2, taking a Text or Binary header at any place
afParseAnyStart(s0, b0, b1) ==
  With([s0 EXCEPT !.readLength = b1 % 128],
       LAMBDA s :
         IF (b0 \div 16) % 8 # 0 THEN handleProtocolError(s, "unexpected reserved bits")
         ELSE IF b0 % 16 \in {OpClose, OpPing, OpPong}
         THEN IF s.readLength > maxControlFramePayloadSize
              THEN handleProtocolError(s, "control frame length > 125")
              ELSE IF b0 < finalBit
              THEN handleProtocolError(s, "control frame not final")
              ELSE afLength(s, b0 % 16, b1 >= 128)
         ELSE IF b0 % 16 \in {OpText, OpBinary}
         THEN afLength([s EXCEPT !.readFinal = b0 >= finalBit], b0 % 16, b1 >= 128)
         ELSE IF b0 % 16 = OpContinuation
         THEN IF s.readFinal
              THEN handleProtocolError(s, "continuation after final message frame")
              ELSE afLength([s EXCEPT !.readFinal = b0 >= finalBit], b0 % 16, b1 >= 128)
         ELSE handleProtocolError(s, "unknown opcode"))

\* advanceFrame, step 2 after the two header bytes b0, b1 were read
afParse(s0, b0, b1) ==
  With([s0 EXCEPT !.readLength = b1 % 128],
       LAMBDA s :
         IF (b0 \div 16) % 8 # 0 THEN handleProtocolError(s, "unexpected reserved bits")
         ELSE IF b0 % 16 \in {OpClose, OpPing, OpPong}
         THEN IF s.readLength > maxControlFramePayloadSize
              THEN handleProtocolError(s, "control frame length > 125")
              ELSE IF b0 < finalBit
              THEN handleProtocolError(s, "control frame not final")
              ELSE afLength(s, b0 % 16, b1 >= 128)
         ELSE IF b0 % 16 \in {OpText, OpBinary}
         THEN IF ~s.readFinal
              THEN handleProtocolError(s, "message start before final message frame")
              ELSE afLength([s EXCEPT !.readFinal = b0 >= finalBit], b0 % 16, b1 >= 128)
         ELSE IF b0 % 16 = OpContinuation
         THEN IF s.readFinal
              THEN handleProtocolError(s, "continuation after final message frame")
              ELSE afLength([s EXCEPT !.readFinal = b0 >= finalBit], b0 % 16, b1 >= 128)
         ELSE handleProtocolError(s, "unknown opcode"))

\* advanceFrame, step 2: the first two bytes of the header
afHeader(s) ==
  With(read(s, 2),
       LAMBDA r :
         IF r.blocked THEN AfBlocked(s)
         ELSE IF r.err # Nil THEN AfRet(r.c, NoOp, r.err)
         ELSE afParse(r.c, r.buf[1], r.buf[2]))

\* Conn.advanceFrame: [c, op, err], or blocked while the frame has not arrived
advanceFrame(s) ==
  IF s.readLength > 0
  THEN With(discard(s, s.readLength),
            LAMBDA d :
              IF d.blocked THEN AfBlocked(s)
              ELSE IF d.err # Nil THEN AfRet(d.c, NoOp, d.err)
              ELSE With(afHeader(d.c), LAMBDA a : IF a.blocked THEN AfBlocked(s) ELSE a))
  ELSE afHeader(s)

(***************************************************************************)
(* NextReader and messageReader.Read.  A call runs until it returns, or    *)
(* until it waits for bytes of the peer; adv lists what each advanceFrame  *)
(* call of the run returned.                                               *)
(***************************************************************************)
RdRet(s, st, opCode, handle, n, data, err, adv) ==
  [c |-> s, st |-> st, opCode |-> opCode, handle |-> handle, n |-> n,
   data |-> data, err |-> err, adv |-> adv]

\* c with the outcome a of advanceFrame: opCode, c.readErr = c.advanceFrame()
latched(a) == [a.c EXCEPT !.readErr = a.err]

Advanced(adv, a) == Append(adv, [op |-> a.op, err |-> a.err])

\* the loop of NextReader: for c.readErr == nil { ... } return -1, nil, c.readErr
RECURSIVE nextReaderLoop(_, _)
nextReaderLoop(s, adv) ==
  IF s.readErr # Nil THEN RdRet(s, "ret", NoOp, FALSE, 0, <<>>, s.readErr, adv)
  ELSE With(advanceFrame(s),
            LAMBDA a :
              IF a.blocked THEN RdRet(s, "wait", NoOp, FALSE, 0, <<>>, Nil, adv)
              ELSE IF a.op \in {OpText, OpBinary}
              THEN RdRet(latched(a), "ret", a.op, TRUE, 0, <<>>, Nil, Advanced(adv, a))
              ELSE IF a.op = OpPong
              THEN RdRet([latched(a) EXCEPT !.savedPong = <<>>, !.hasPong = FALSE],
                         "ret", OpPong, FALSE, Len(a.c.savedPong), a.c.savedPong, Nil,
                         Advanced(adv, a))
              ELSE IF a.op = OpContinuation
              THEN RdRet([latched(a) EXCEPT !.panic = "unexpected continuation"],
                         "panic", NoOp, FALSE, 0, <<>>, Nil, Advanced(adv, a))
              ELSE nextReaderLoop(latched(a), Advanced(adv, a)))

\* NextReader that forgets the error of the reads before
NextReaderOpUnlatched(s) ==
  IF s.hasPong
  THEN RdRet([s EXCEPT !.readSeq = s.readSeq + 1, !.savedPong = <<>>, !.hasPong = FALSE],
             "ret", OpPong, FALSE, Len(s.savedPong), s.savedPong, Nil, <<>>)
  ELSE nextReaderLoop([s EXCEPT !.readSeq = s.readSeq + 1, !.readErr = Nil], <<>>)

\* Conn.NextReader up to its loop
NextReaderOp(s) ==
  IF s.hasPong
  THEN RdRet([s EXCEPT !.readSeq = s.readSeq + 1, !.savedPong = <<>>, !.hasPong = FALSE],
             "ret", OpPong, FALSE, Len(s.savedPong), s.savedPong, Nil, <<>>)
  ELSE nextReaderLoop([s EXCEPT !.readSeq = s.readSeq + 1], <<>>)

\* b[:k] after c.read(b): what a failed read did not fill keeps the caller's
\* bytes (0)
filled(buf, k) == [i \in 1..k |-> IF i <= Len(buf) THEN buf[i] ELSE 0]

\* Read, while bytes remain in the current frame
readPayload(s, n, adv) ==
  With(read(s, atMost(n, s.readLength)),
       LAMBDA r :
         IF r.blocked THEN RdRet(s, "wait", NoOp, FALSE, 0, <<>>, Nil, adv)
         ELSE With(maskBytes([r.c EXCEPT !.readErr = r.err],
                             filled(r.buf, atMost(n, s.readLength))),
                   LAMBDA m :
                     RdRet([m.c EXCEPT !.readLength = s.readLength - atMost(n, s.readLength)],
                           "ret", NoOp, FALSE, atMost(n, s.readLength), m.b, r.err, adv)))

\* the loop of messageReader.Read with len(b) = n
RECURSIVE readLoop(_, _, _)
readLoop(s, n, adv) ==
  IF s.readErr # Nil THEN RdRet(s, "ret", NoOp, FALSE, 0, <<>>, s.readErr, adv)
  ELSE IF s.readLength > 0 THEN readPayload(s, n, adv)
  ELSE IF s.readFinal
  THEN RdRet([s EXCEPT !.readSeq = s.readSeq + 1], "ret", NoOp, FALSE, 0, <<>>, EOF, adv)
  ELSE With(advanceFrame(s),
            LAMBDA a :
              IF a.blocked THEN RdRet(s, "wait", NoOp, FALSE, 0, <<>>, Nil, adv)
              ELSE IF a.op \in {OpText, OpBinary}
              THEN RdRet([latched(a) EXCEPT !.panic = "unexpected text or binary frame"],
                         "panic", NoOp, FALSE, 0, <<>>, Nil, Advanced(adv, a))
              ELSE readLoop(latched(a), n, Advanced(adv, a)))

\* Read that does not look at the stamp of its handle
ReadOpAnySeq(s, seq, n) == readLoop(s, n, <<>>)

\* messageReader.Read on a handle with stamp seq
ReadOp(s, seq, n) ==
  IF seq # s.readSeq THEN RdRet(s, "ret", NoOp, FALSE, 0, <<>>, EOF, <<>>)
  ELSE readLoop(s, n, <<>>)

(***************************************************************************)
(* Frames on the wire (RFC 6455, section 5.2), as a receiver parses them.  *)
(***************************************************************************)
\* the 64-bit length in the 8 bytes b; every length of 2^24 or more, longer
\* than any stream here, is taken as 2^24
WireLength(b) ==
  IF \E i \in 1..5 : b[i] # 0 THEN 16777216 ELSE FromBE(SubSeq(b, 6, 8))

\* the first frame of the bytes w and the bytes after it; op = NoOp when w
\* does not start with a whole frame
FirstFrame(w) ==
  IF Len(w) < 2
  THEN [op |-> NoOp, fin |-> FALSE, rsv |-> 0, mask |-> FALSE, payload |-> <<>>, rest |-> <<>>]
  ELSE LET len7 == w[2] % 128
           hdr == IF len7 = 126 THEN 4 ELSE IF len7 = 127 THEN 10 ELSE 2
           L == IF Len(w) < hdr THEN 0
                ELSE IF len7 = 126 THEN FromBE(SubSeq(w, 3, 4))
                ELSE IF len7 = 127 THEN WireLength(SubSeq(w, 3, 10))
                ELSE len7
       IN IF Len(w) < hdr + L
          THEN [op |-> NoOp, fin |-> FALSE, rsv |-> 0, mask |-> FALSE,
                payload |-> <<>>, rest |-> <<>>]
          ELSE [op |-> w[1] % 16, fin |-> w[1] >= 128, rsv |-> (w[1] \div 16) % 8,
                mask |-> w[2] >= 128,
                payload |-> SubSeq(w, hdr + 1, hdr + L),
                rest |-> SubSeq(w, hdr + L + 1, Len(w))]

\* the unmasked frames the bytes w are made of
RECURSIVE ParseFrames(_)
ParseFrames(w) ==
  IF Len(w) = 0 THEN <<>>
  ELSE LET f == FirstFrame(w)
       IN IF f.op = NoOp THEN << [op |-> NoOp, fin |-> FALSE, rsv |-> 0, mask |-> FALSE, payload |-> w] >>
          ELSE << [op |-> f.op, fin |-> f.fin, rsv |-> f.rsv, mask |-> f.mask, payload |-> f.payload] >>
               \o ParseFrames(f.rest)

\* the payloads of the frames fs, one after the other
RECURSIVE Payloads(_)
Payloads(fs) == IF Len(fs) = 0 THEN <<>> ELSE Head(fs).payload \o Payloads(Tail(fs))

\* What has gone over the wire: closes counts the Close frames, after tells
\* that bytes followed a Close frame; api tells that SendClose has returned.
Account(sent0, out) ==
  LET fs == ParseFrames(out)
      ncl == Len(SelectSeq(fs, LAMBDA f : f.op = OpClose))
  IN [api |-> sent0.api,
      closes |-> sent0.closes + ncl,
      after |-> \/ sent0.after
                \/ sent0.closes > 0 /\ Len(out) > 0
                \/ ncl > 0 /\ fs[Len(fs)].op # OpClose]

\* c.conn holds the bytes the running call has written and c.nwrite counts
\* its calls of Conn.write; when the call is over the bytes are on the wire
onWire(s) == [s EXCEPT !.conn = <<>>, !.nwrite = 0]

\* the handles the application still holds: the last two it was given
lastTwo(hs) == IF Len(hs) > 2 THEN SubSeq(hs, Len(hs) - 1, Len(hs)) ELSE hs

(***************************************************************************)
(* The peer: the frames it sends, as bytes on the inbound stream.          *)
(***************************************************************************)
\* masking keys of the peer's frames
Keys == << <<55, 250, 33, 61>>, <<129, 2, 76, 240>> >>

PeerFrame(fin, rsv, op, mask, enc, plain) ==
  [fin |-> fin, rsv |-> rsv, op |-> op, mask |-> mask, enc |-> enc, plain |-> plain]

NoFrame == PeerFrame(FALSE, 0, NoOp, FALSE, "7", <<>>)

\* the bytes of frame f, masked with one key in the first frame of a message
\* and with the other in the frames after it; with enc "64hi" the peer sets
\* the top bit of the 64-bit length
Encode(f) ==
  LET L == Len(f.plain)
      key == IF f.op = OpContinuation THEN Keys[2] ELSE Keys[1]
      b0 == (IF f.fin THEN 128 ELSE 0) + (16 * f.rsv) + f.op
      len7 == CASE f.enc = "7" -> L [] f.enc = "16" -> 126 [] f.enc \in {"64", "64hi"} -> 127
      ext == CASE f.enc = "7" -> <<>> [] f.enc = "16" -> BE16(L) [] f.enc = "64" -> BE64(L)
               [] f.enc = "64hi" -> <<128>> \o BEn(L, 7)
      b1 == (IF f.mask THEN 128 ELSE 0) + len7
      body == IF f.mask
              THEN [i \in 1..L |-> Xor(f.plain[i], key[((i - 1) % 4) + 1])]
              ELSE f.plain
  IN <<b0, b1>> \o ext \o (IF f.mask THEN key ELSE <<>>) \o body

\* what the peer has sent last: the first k bytes of frame f
Sent(f, k) == [f |-> f, k |-> k]

ClosePayloads ==
  { <<>>, <<3>>, BE16(CloseNormalClosure), BE16(CloseGoingAway),
    BE16(CloseMessageTooBig) \o <<116, 111, 111, 32, 98, 105, 103>> }

DataFrames ==
  { PeerFrame(fin, 0, OpText, TRUE, "7", Pay(MaxPayload)) : fin \in BOOLEAN }
  \cup { PeerFrame(fin, 0, OpContinuation, TRUE, "7", Pay(n)) :
            fin \in BOOLEAN, n \in {0, 2} }
  \cup { PeerFrame(TRUE, 0, OpBinary, TRUE, "7", <<>>) }

ExtFrames ==
  { PeerFrame(TRUE, 0, OpBinary, TRUE, enc, Pay(1)) : enc \in {"16", "64"} }

PingPongFrames ==
  { PeerFrame(TRUE, 0, OpPing, TRUE, "7", Pay(2)) }
  \cup { PeerFrame(TRUE, 0, OpPong, TRUE, "7", Pay(n)) : n \in {0, 2} }

CloseFrames == { PeerFrame(TRUE, 0, OpClose, TRUE, "7", p) : p \in ClosePayloads }

MalformedFrames ==
  { PeerFrame(TRUE, 1, OpText, TRUE, "7", Pay(1)),      \* reserved bit
    PeerFrame(TRUE, 0, 3, TRUE, "7", Pay(1)),           \* unknown data opcode
    PeerFrame(TRUE, 0, 11, TRUE, "7", Pay(1)),          \* unknown control opcode
    PeerFrame(TRUE, 0, OpText, FALSE, "7", Pay(1)),     \* not masked
    PeerFrame(FALSE, 0, OpPing, TRUE, "7", Pay(1)),     \* control frame, FIN=0
    PeerFrame(TRUE, 0, OpPing, TRUE, "16", Pay(1)) }    \* control frame, length 126

\* the frames of a peer that closes or breaks the protocol, with the data and
\* control frames that come before
ErrFrames ==
  { PeerFrame(fin, 0, OpText, TRUE, "7", Pay(2)) : fin \in BOOLEAN }
  \cup { PeerFrame(TRUE, 0, OpContinuation, TRUE, "7", Pay(2)) }
  \cup { PeerFrame(TRUE, 0, op, TRUE, "7", Pay(2)) : op \in {OpPing, OpPong} }
  \cup CloseFrames \cup MalformedFrames

\* frames the peer breaks off before their last byte
CutFrames ==
  { PeerFrame(TRUE, 0, OpText, TRUE, "7", Pay(2)),
    PeerFrame(TRUE, 0, OpPing, TRUE, "7", Pay(0)) }

ReadSizes == {0, 1, 3}

WriteSizes == {1, WriteBufSize + 1, (2 * (WriteBufSize + maxFrameHeaderSize)) + 1}

\* sizes of the WriteString calls: one that fills the buffer, one that Write
\* would not buffer
WriteStringSizes == {WriteBufSize + 1, (2 * (WriteBufSize + maxFrameHeaderSize)) + 1}

WriterOpCodes == {OpText, OpBinary, OpClose, OpPing, OpPong}

CloseArgs == { <<CloseInvalidFramePayloadData, <<111, 107>> >> }

(***************************************************************************)
(* Initial state: the connection NewServerConn returns.                    *)
(***************************************************************************)
\* What the last call of the application returned: op names the method, seq
\* the stamp of the handle it was called on (or of the handle it returned),
\* was is what the call found (s0 is the connection at the call) and api
\* tells that SendClose had returned by then; same tells that the call left
\* the connection as it found it; out is the bytes the call wrote in nwrite
\* calls of Conn.write, adv what each advanceFrame call of a reader run
\* returned, frame the frame of the peer a reader run found unread in br and
\* got to, up tells that
\* the transport worked during such a run and brSame that the call read
\* nothing from the transport.
Was(s0) ==
  [closeSent |-> s0.closeSent, writeOpCode |-> s0.writeOpCode, writeBuf |-> s0.writeBuf,
   writeSeq |-> s0.writeSeq, readSeq |-> s0.readSeq, readFinal |-> s0.readFinal,
   readErr |-> s0.readErr, hasPong |-> s0.hasPong, savedPong |-> s0.savedPong]

Returned(op, seq, r, s0, api) ==
  [op |-> op, seq |-> seq, st |-> r.st, opCode |-> r.opCode, handle |-> r.handle,
   n |-> r.n, data |-> r.data, err |-> r.err, adv |-> r.adv,
   was |-> Was(s0), api |-> api, same |-> (onWire(r.c) = s0),
   out |-> r.c.conn, nwrite |-> r.c.nwrite,
   frame |-> IF Len(r.adv) > 0 /\ peer.k > 0 /\ Len(s0.br) >= peer.k
             THEN peer ELSE Sent(NoFrame, 0),
   up |-> (Len(r.adv) > 0 => netUp), brSame |-> (r.c.br = s0.br)]

\* the outcome of a writer call in the shape of a reader run
WrRet(r, handle, n) == RdRet(r.c, "ret", NoOp, handle, n, <<>>, r.err, <<>>)

NoWmsg ==
  [op |-> NoOp, seq |-> NoOp, data |-> <<>>, wire |-> <<>>, ok |-> FALSE, nw |-> 0,
   late |-> <<>>]
NoRmsg == [op |-> NoOp, seq |-> NoOp, delivered |-> <<>>, expected |-> <<>>, fin |-> FALSE]
Idle == [at |-> "idle", seq |-> NoOp, n |-> 0]

Init ==
  /\ c = NewServerConn(WriteBufSize)
  /\ netUp = TRUE
  /\ peerClosed = FALSE
  /\ writers = <<>>
  /\ readers = <<>>
  /\ ret = Returned("none", NoOp, WrRet([c |-> NewServerConn(WriteBufSize), err |-> Nil],
                                        FALSE, 0),
                     NewServerConn(WriteBufSize), FALSE)
  /\ rpc = Idle
  /\ wmsg = NoWmsg
  /\ rmsg = NoRmsg
  /\ peer = Sent(NoFrame, 0)
  /\ sent = [api |-> FALSE, closes |-> 0, after |-> FALSE]

(***************************************************************************)
(* Environment actions.                                                    *)
(***************************************************************************)
\* the transport starts to fail (deadline passed, connection reset)
NetDown ==
  /\ netUp
  /\ netUp' = FALSE
  /\ UNCHANGED <<c, peerClosed, writers, readers, ret, rpc, wmsg, rmsg, peer, sent>>

\* the transport works again (the caller set a new deadline)
NetUp ==
  /\ ~netUp
  /\ netUp' = TRUE
  /\ UNCHANGED <<c, peerClosed, writers, readers, ret, rpc, wmsg, rmsg, peer, sent>>

\* The peer sends its next frame once the reader has taken the header of the
\* one before (so br holds at most the rest of one payload).
PeerMaySend(f) ==
  /\ ~peerClosed
  /\ \/ Len(c.br) = 0
     \/ c.readErr = Nil /\ c.readLength > 0 /\ Len(c.br) = c.readLength
  /\ f.op = OpContinuation => Len(rmsg.expected) + Len(f.plain) <= MaxMsgLen

PeerSend(f) ==
  /\ PeerMaySend(f)
  /\ c' = [c EXCEPT !.br = c.br \o Encode(f)]
  /\ peer' = Sent(f, Len(Encode(f)))
  /\ UNCHANGED <<netUp, peerClosed, writers, readers, ret, rpc, wmsg, rmsg, sent>>

\* the peer sends the first k bytes of a frame and closes its side
PeerSendCut(f, k) ==
  /\ PeerMaySend(f)
  /\ k < Len(Encode(f))
  /\ c' = [c EXCEPT !.br = c.br \o SubSeq(Encode(f), 1, k)]
  /\ peer' = Sent(f, k)
  /\ peerClosed' = TRUE
  /\ UNCHANGED <<netUp, writers, readers, ret, rpc, wmsg, rmsg, sent>>

PeerClose ==
  /\ ~peerClosed
  /\ peerClosed' = TRUE
  /\ UNCHANGED <<c, netUp, writers, readers, ret, rpc, wmsg, rmsg, peer, sent>>

(***************************************************************************)
(* Writer-side actions of the application.  wmsg follows the message of    *)
(* the current writer: the bytes given to it and the bytes it has written, *)
(* ok while no call on it has failed, and in late the bytes that the calls *)
(* on it have written after one of them had failed.                        *)
(***************************************************************************)
\* what a writer call leaves behind
WriterDone(op, seq, r, handle, n) ==
  /\ c' = onWire(r.c)
  /\ ret' = Returned(op, seq, WrRet(r, handle, n), c, sent.api)
  /\ sent' = [Account(sent, r.c.conn) EXCEPT !.api = @ \/ op = "SendClose"]

NextWriter(opCode) ==
  /\ c.panic = ""
  /\ c.writeSeq < MaxWriteSeq
  /\ \E r \in {NextWriterOp(c, opCode)} :
        /\ WriterDone("NextWriter", IF r.handle THEN r.c.writeSeq ELSE NoOp, r, r.handle, 0)
        /\ writers' = IF r.handle THEN Append(writers, r.c.writeSeq) ELSE writers
        /\ wmsg' = IF r.handle
                   THEN [op |-> opCode, seq |-> r.c.writeSeq, data |-> <<>>,
                         wire |-> <<>>, ok |-> TRUE, nw |-> 0, late |-> <<>>]
                   ELSE [wmsg EXCEPT !.ok = FALSE]
  /\ UNCHANGED <<netUp, peerClosed, readers, rpc, rmsg, peer>>

\* the bookkeeping of a Write or WriteString of p on the valid writer
WroteMsg(seq, r, p) ==
  IF seq = c.writeSeq
  THEN [wmsg EXCEPT !.data = IF r.err = Nil THEN @ \o p ELSE @,
                    !.wire = @ \o r.c.conn,
                    !.ok = @ /\ r.err = Nil,
                    !.nw = @ + 1,
                    !.late = IF wmsg.ok THEN @ ELSE @ \o r.c.conn]
  ELSE wmsg

Write(h, size) ==
  /\ c.panic = ""
  /\ h \in DOMAIN writers
  /\ writers[h] = c.writeSeq => wmsg.nw < MaxWrites
  /\ \E r \in {WriteOp(c, writers[h], Pay(size))} :
        /\ WriterDone("Write", writers[h], r, FALSE, r.n)
        /\ wmsg' = WroteMsg(writers[h], r, Pay(size))
  /\ UNCHANGED <<netUp, peerClosed, writers, readers, rpc, rmsg, peer>>

WriteString(h, size) ==
  /\ c.panic = ""
  /\ h \in DOMAIN writers
  /\ writers[h] = c.writeSeq => wmsg.nw < MaxWrites
  /\ \E r \in {WriteStringOp(c, writers[h], Pay(size))} :
        /\ WriterDone("WriteString", writers[h], r, FALSE, r.n)
        /\ wmsg' = WroteMsg(writers[h], r, Pay(size))
  /\ UNCHANGED <<netUp, peerClosed, writers, readers, rpc, rmsg, peer>>

Close(h) ==
  /\ c.panic = ""
  /\ h \in DOMAIN writers
  /\ \E r \in {CloseOp(c, writers[h])} :
        /\ WriterDone("Close", writers[h], r, FALSE, 0)
        /\ wmsg' = IF writers[h] = c.writeSeq
                   THEN [wmsg EXCEPT !.wire = @ \o r.c.conn, !.ok = @ /\ r.err = Nil,
                                     !.late = IF wmsg.ok THEN @ ELSE @ \o r.c.conn]
                   ELSE wmsg
  /\ UNCHANGED <<netUp, peerClosed, writers, readers, rpc, rmsg, peer>>

\* ret holds the arguments of the call too
SendClose(closeCode, message) ==
  /\ c.panic = ""
  /\ \E r \in {SendCloseOp(c, closeCode, message)} :
        /\ c' = onWire(r.c)
        /\ ret' = Returned("SendClose", NoOp, WrRet(r, FALSE, 0), c, sent.api)
                     @@ [closeCode |-> closeCode, message |-> message]
        /\ sent' = [Account(sent, r.c.conn) EXCEPT !.api = TRUE]
  /\ UNCHANGED <<netUp, peerClosed, writers, readers, rpc, wmsg, rmsg, peer>>

(***************************************************************************)
(* Reader-side actions of the application.  rmsg follows the message of    *)
(* the current reader: the bytes Read has returned and the payloads of the *)
(* frames accepted for it, with the FIN bit of the last of them.  peer is   *)
(* the last frame the peer has sent.                                       *)
(***************************************************************************)
\* what a run of NextReader or Read leaves behind
ReaderDone(op, seq, r, n) ==
  /\ c' = onWire(r.c)
  /\ ret' = Returned(op, seq, r, c, sent.api)
  /\ rpc' = IF r.st = "wait" THEN [at |-> op, seq |-> seq, n |-> n] ELSE Idle
  /\ readers' = IF r.handle THEN lastTwo(Append(readers, r.c.readSeq)) ELSE readers
  /\ sent' = Account(sent, r.c.conn)
  /\ UNCHANGED peer

\* the data frames whose header the run accepted
Accepted(r) ==
  Len(SelectSeq(r.adv, LAMBDA a : a.err = Nil /\ a.op \in {OpContinuation, OpText, OpBinary}))

\* the bookkeeping of a run of NextReader
NextMsg(r) ==
  IF r.handle
  THEN [op |-> r.opCode, seq |-> r.c.readSeq, delivered |-> <<>>, expected |-> peer.f.plain,
        fin |-> peer.f.fin]
  ELSE NoRmsg

NextReader ==
  /\ c.panic = ""
  /\ rpc.at = "idle"
  /\ c.readSeq < MaxReadSeq
  /\ \E r \in {NextReaderOp(c)} :
        /\ ReaderDone("NextReader", IF r.handle THEN r.c.readSeq ELSE NoOp, r, 0)
        /\ rmsg' = NextMsg(r)
  /\ UNCHANGED <<netUp, peerClosed, writers, wmsg>>

NextReaderResume ==
  /\ c.panic = ""
  /\ rpc.at = "NextReader"
  /\ \E r \in {nextReaderLoop(c, <<>>)} :
        /\ r.st # "wait" \/ onWire(r.c) # c
        /\ ReaderDone("NextReader", IF r.handle THEN r.c.readSeq ELSE NoOp, r, 0)
        /\ rmsg' = NextMsg(r)
  /\ UNCHANGED <<netUp, peerClosed, writers, wmsg>>

\* the bookkeeping of a run of Read on handle seq
ReadMsg(seq, r) ==
  IF seq # rmsg.seq THEN rmsg
  ELSE IF r.err \notin {Nil, EOF} \/ r.st = "panic" THEN NoRmsg
  ELSE [rmsg EXCEPT !.delivered = IF r.err = Nil THEN @ \o r.data ELSE @,
                    !.expected = IF Accepted(r) > 0 THEN @ \o peer.f.plain ELSE @,
                    !.fin = IF Accepted(r) > 0 THEN peer.f.fin ELSE @]

Read(h, n) ==
  /\ c.panic = ""
  /\ rpc.at = "idle"
  /\ h \in DOMAIN readers
  /\ \E r \in {ReadOp(c, readers[h], n)} :
        /\ ReaderDone("Read", readers[h], r, n)
        /\ rmsg' = ReadMsg(readers[h], r)
  /\ UNCHANGED <<netUp, peerClosed, writers, wmsg>>

ReadResume ==
  /\ c.panic = ""
  /\ rpc.at = "Read"
  /\ \E r \in {readLoop(c, rpc.n, <<>>)} :
        /\ r.st # "wait" \/ onWire(r.c) # c
        /\ ReaderDone("Read", rpc.seq, r, rpc.n)
        /\ rmsg' = ReadMsg(rpc.seq, r)
  /\ UNCHANGED <<netUp, peerClosed, writers, wmsg>>

(***************************************************************************)
(* Concurrent tasks.  A call of the public surface is local to its task up *)
(* to its call of Conn.write and after it, so it takes effect where that   *)
(* call takes the mutex; the buffers of the call then go to the transport  *)
(* one conn.Write at a time, and the mutex is released after the last.     *)
(* Here c.conn is all that the transport has taken, MaxFrames at most;     *)
(* ret, sent, wmsg and rmsg are not kept.                                  *)
(***************************************************************************)
\* c.mu.Lock() that does not wait
MayLockAnyway(s, t) == TRUE

\* c.mu.Lock(): the call goes on when no task is inside Conn.write
MayLock(s, t) == \A u \in Tasks : s.mu[u] = <<>>

\* the non-empty buffers of c.write(opCode, c.writeBuf[pos:c.writePos], extra)
\* that wrote the bytes out
bufsOf(out, extra) ==
  IF Len(out) = 0 THEN <<>>
  ELSE IF Len(extra) > 0 /\ Len(extra) < Len(out)
  THEN << SubSeq(out, 1, Len(out) - Len(extra)), extra >>
  ELSE <<out>>

\* task t makes a call whose outcome on onWire(c) is r, with extra the bytes
\* it passes by the buffer
Enter(t, r, extra) ==
  /\ c.mu[t] = <<>>
  /\ r.c.nwrite > 0 => MayLock(c, t)
  /\ Len(r.c.conn) > 0 => Len(ParseFrames(c.order)) < MaxFrames
  /\ c' = [r.c EXCEPT !.conn = c.conn,
                      !.order = c.order \o r.c.conn,
                      !.mu[t] = bufsOf(r.c.conn, extra)]

\* c.conn.Write(buf) of the loop of Conn.write
WriteBuf(t) ==
  /\ Len(c.mu[t]) > 0
  /\ c' = [c EXCEPT !.conn = @ \o Head(c.mu[t]), !.mu[t] = Tail(@)]
  /\ UNCHANGED <<netUp, peerClosed, writers, readers, ret, rpc, wmsg, rmsg, peer, sent>>

TaskNextWriter(opCode) ==
  /\ c.panic = ""
  /\ c.writeSeq < MaxWriteSeq
  /\ \E r \in {NextWriterOp(onWire(c), opCode)} :
        /\ Enter("writer", r, <<>>)
        /\ writers' = IF r.handle THEN lastTwo(Append(writers, r.c.writeSeq)) ELSE writers
  /\ UNCHANGED <<netUp, peerClosed, readers, ret, rpc, wmsg, rmsg, peer, sent>>

TaskWrite(h, size) ==
  /\ c.panic = ""
  /\ h \in DOMAIN writers
  /\ \E r \in {WriteOp(onWire(c), writers[h], Pay(size))} :
        Enter("writer", r, IF size > 2 * c.writeBufLen THEN Pay(size) ELSE <<>>)
  /\ UNCHANGED <<netUp, peerClosed, writers, readers, ret, rpc, wmsg, rmsg, peer, sent>>

TaskClose(h) ==
  /\ c.panic = ""
  /\ h \in DOMAIN writers
  /\ \E r \in {CloseOp(onWire(c), writers[h])} : Enter("writer", r, <<>>)
  /\ UNCHANGED <<netUp, peerClosed, writers, readers, ret, rpc, wmsg, rmsg, peer, sent>>

TaskSendClose(t, closeCode, message) ==
  /\ c.panic = ""
  /\ \E r \in {SendCloseOp(onWire(c), closeCode, message)} : Enter(t, r, <<>>)
  /\ UNCHANGED <<netUp, peerClosed, writers, readers, ret, rpc, wmsg, rmsg, peer, sent>>

\* a run of NextReader, from its call or from where it waited
TaskNextReader ==
  /\ c.panic = ""
  /\ IF rpc.at = "idle" THEN c.readSeq < MaxReadSeq ELSE rpc.at = "NextReader"
  /\ \E r \in {IF rpc.at = "idle" THEN NextReaderOp(onWire(c))
                                  ELSE nextReaderLoop(onWire(c), <<>>)} :
        /\ r.st # "wait" \/ rpc.at = "idle" \/ r.c # onWire(c)
        /\ Enter("reader", r, <<>>)
        /\ rpc' = IF r.st = "wait" THEN [at |-> "NextReader", seq |-> NoOp, n |-> 0] ELSE Idle
        /\ readers' = IF r.handle THEN lastTwo(Append(readers, r.c.readSeq)) ELSE readers
  /\ UNCHANGED <<netUp, peerClosed, writers, ret, wmsg, rmsg, peer, sent>>

\* a run of Read, from its call or from where it waited
TaskRead(h, n) ==
  /\ c.panic = ""
  /\ IF rpc.at = "idle" THEN h \in DOMAIN readers ELSE rpc.at = "Read" /\ n = rpc.n
  /\ \E r \in {IF rpc.at = "idle" THEN ReadOp(onWire(c), readers[h], n)
                                  ELSE readLoop(onWire(c), n, <<>>)} :
        /\ r.st # "wait" \/ rpc.at = "idle" \/ r.c # onWire(c)
        /\ Enter("reader", r, <<>>)
        /\ rpc' = IF r.st = "wait" THEN [at |-> "Read", seq |-> NoOp, n |-> n] ELSE Idle
  /\ UNCHANGED <<netUp, peerClosed, writers, readers, ret, wmsg, rmsg, peer, sent>>

(***************************************************************************)
(* The header of a frame.  flushFrame is applied to a connection whose     *)
(* writer has buffered some bytes, for the frame lengths at which the      *)
(* encoding of the length changes; ret holds the input, the header put in  *)
(* the head of the write buffer, the first bytes the transport got, their  *)
(* number, and whether they end with the payload.                          *)
(***************************************************************************)
\* n bytes of payload
Fill(n) == [i \in 1..n |-> 97 + (i % 26)]

HeaderLengths == {0, 1, 124, 125, 126, 127, 65535, 65536, 65537}

\* the connection after NextWriter(opCode) and a Write of k bytes that fit, or
\* after a frame of that message
Buffered(opCode, k) ==
  [NewServerConn(WriteBufSize) EXCEPT !.writeOpCode = opCode,
                                      !.writeBuf = Fill(k),
                                      !.writePos = maxFrameHeaderSize + k]

InitH ==
  /\ \E opCode \in {OpContinuation, OpText, OpBinary} : \E k \in {0, 1} :
        c = Buffered(opCode, k)
  /\ \E final \in BOOLEAN : \E length \in HeaderLengths :
        /\ length >= Len(c.writeBuf)
        /\ ret = [op |-> "none", final |-> final, length |-> length]
  /\ netUp = TRUE
  /\ peerClosed = FALSE
  /\ writers = <<>>
  /\ readers = <<>>
  /\ rpc = Idle
  /\ wmsg = NoWmsg
  /\ rmsg = NoRmsg
  /\ peer = Sent(NoFrame, 0)
  /\ sent = [api |-> FALSE, closes |-> 0, after |-> FALSE]

\* flushFrame(final, extra) for a frame of ret.length bytes
FlushFrame ==
  /\ ret.op = "none"
  /\ \E r \in {flushFrame(c, ret.final, Fill(ret.length - Len(c.writeBuf)))} :
        /\ c' = onWire(r.c)
        /\ ret' = [op |-> "flushFrame", final |-> ret.final, length |-> ret.length,
                   opCode |-> c.writeOpCode, err |-> r.err,
                   buffered |-> c.writeBuf,
                   header |-> PutHeader(Byte(c.writeOpCode)
                                          + (IF ret.final THEN finalBit ELSE 0),
                                        ret.length),
                   out |-> SubSeq(r.c.conn, 1, atMost(Len(r.c.conn), maxFrameHeaderSize)),
                   n |-> Len(r.c.conn),
                   payload |-> /\ Len(r.c.conn) >= ret.length
                               /\ SubSeq(r.c.conn, Len(r.c.conn) - ret.length + 1,
                                         Len(r.c.conn))
                                    = c.writeBuf \o Fill(ret.length - Len(c.writeBuf))]
  /\ UNCHANGED <<netUp, peerClosed, writers, readers, rpc, wmsg, rmsg, peer, sent>>

(***************************************************************************)
(* Large writes on the connection Upgrade makes.  The bytes are not kept:   *)
(* wmsg.frames holds, for each frame the writer of the message has put on  *)
(* the transport, its header fields, the length of its header and of its   *)
(* payload; wmsg.kept tells that the payloads on the transport and the     *)
(* bytes in the buffer are the bytes written, in order; wmsg.sizes holds   *)
(* the sizes of the Write calls.                                           *)
(***************************************************************************)
RECURSIVE Frames(_)
Frames(w) ==
  IF Len(w) = 0 THEN <<>>
  ELSE With(FirstFrame(w),
            LAMBDA f :
              IF f.op = NoOp
              THEN << [op |-> NoOp, fin |-> FALSE, rsv |-> 0, mask |-> FALSE,
                       header |-> 0, length |-> Len(w)] >>
              ELSE << [op |-> f.op, fin |-> f.fin, rsv |-> f.rsv, mask |-> f.mask,
                       header |-> Len(w) - Len(f.rest) - Len(f.payload),
                       length |-> Len(f.payload)] >>
                   \o Frames(f.rest))

BigSizes ==
  { maxControlFramePayloadSize, maxControlFramePayloadSize + 1, upgradeWriteBufSize + 1,
    (2 * (upgradeWriteBufSize + maxFrameHeaderSize)) + 1, 70000 }

InitB ==
  /\ c = NewServerConn(upgradeWriteBufSize)
  /\ ret = [op |-> "none", seq |-> NoOp, size |-> 0, err |-> Nil, frames |-> <<>>,
            was |-> Was(NewServerConn(upgradeWriteBufSize))]
  /\ wmsg = [op |-> NoOp, seq |-> NoOp, frames |-> <<>>, kept |-> TRUE, sizes |-> <<>>]
  /\ netUp = TRUE
  /\ peerClosed = FALSE
  /\ writers = <<>>
  /\ readers = <<>>
  /\ rpc = Idle
  /\ rmsg = NoRmsg
  /\ peer = Sent(NoFrame, 0)
  /\ sent = [api |-> FALSE, closes |-> 0, after |-> FALSE]

BigDone(op, seq, size, r) ==
  /\ c' = onWire(r.c)
  /\ ret' = [op |-> op, seq |-> seq, size |-> size, err |-> r.err,
             frames |-> Frames(r.c.conn), was |-> Was(c)]

BigNextWriter(opCode) ==
  /\ c.writeSeq < MaxWriteSeq
  /\ \E r \in {NextWriterOp(c, opCode)} :
        /\ BigDone("NextWriter", IF r.handle THEN r.c.writeSeq ELSE NoOp, 0, r)
        /\ writers' = IF r.handle THEN lastTwo(Append(writers, r.c.writeSeq)) ELSE writers
        /\ wmsg' = IF r.handle
                   THEN [op |-> opCode, seq |-> r.c.writeSeq, frames |-> <<>>,
                         kept |-> TRUE, sizes |-> <<>>]
                   ELSE wmsg
  /\ UNCHANGED <<netUp, peerClosed, readers, rpc, rmsg, peer, sent>>

BigWrite(h, size) ==
  /\ h \in DOMAIN writers
  /\ Len(wmsg.sizes) < MaxWrites
  /\ \E r \in {WriteOp(c, writers[h], Fill(size))} :
        /\ BigDone("Write", writers[h], size, r)
        /\ wmsg' = IF writers[h] = c.writeSeq
                   THEN [wmsg EXCEPT
                           !.frames = @ \o Frames(r.c.conn),
                           !.kept = @ /\ Payloads(ParseFrames(r.c.conn)) \o r.c.writeBuf
                                           = c.writeBuf \o Fill(size),
                           !.sizes = Append(@, size)]
                   ELSE wmsg
  /\ UNCHANGED <<netUp, peerClosed, writers, readers, rpc, rmsg, peer, sent>>

BigClose(h) ==
  /\ h \in DOMAIN writers
  /\ \E r \in {CloseOp(c, writers[h])} :
        /\ BigDone("Close", writers[h], 0, r)
        /\ wmsg' = IF writers[h] = c.writeSeq
                   THEN [wmsg EXCEPT
                           !.frames = @ \o Frames(r.c.conn),
                           !.kept = @ /\ Payloads(ParseFrames(r.c.conn)) \o r.c.writeBuf
                                           = c.writeBuf]
                   ELSE wmsg
  /\ UNCHANGED <<netUp, peerClosed, writers, readers, rpc, rmsg, peer, sent>>

(***************************************************************************)
(* The two sides of the connection.  Every method of the writer and of the *)
(* reader and SendClose, in any order; of a call ret keeps its name, its   *)
(* error, the bytes it wrote, and whether it left the fields of the writer *)
(* (writerSame), the fields of the reader (readerSame), the inbound stream *)
(* (brSame) and closeSent as they were.  wmsg, rmsg and sent are not kept. *)
(***************************************************************************)
WriterState(s) == <<s.writeBuf, s.writePos, s.writeOpCode, s.writeSeq>>
ReaderState(s) ==
  <<s.readErr, s.readLength, s.readFinal, s.readSeq, s.savedPong, s.hasPong,
    s.maskPos, s.maskKey>>

Touched(op, r) ==
  /\ c' = onWire(r.c)
  /\ ret' = [op |-> op, st |-> r.st, err |-> r.err, out |-> r.c.conn,
             nwrite |-> r.c.nwrite,
             writerSame |-> (WriterState(r.c) = WriterState(c)),
             readerSame |-> (ReaderState(r.c) = ReaderState(c)),
             brSame |-> (r.c.br = c.br),
             closeSentSame |-> (r.c.closeSent = c.closeSent)]

BothNextWriter(opCode) ==
  /\ c.panic = ""
  /\ c.writeSeq < MaxWriteSeq
  /\ \E r \in {NextWriterOp(c, opCode)} :
        /\ Touched("NextWriter", WrRet(r, r.handle, 0))
        /\ writers' = IF r.handle THEN lastTwo(Append(writers, r.c.writeSeq)) ELSE writers
  /\ UNCHANGED <<netUp, peerClosed, readers, rpc, wmsg, rmsg, peer, sent>>

BothWrite(h, size) ==
  /\ c.panic = ""
  /\ h \in DOMAIN writers
  /\ \E r \in {WriteOp(c, writers[h], Pay(size))} : Touched("Write", WrRet(r, FALSE, r.n))
  /\ UNCHANGED <<netUp, peerClosed, writers, readers, rpc, wmsg, rmsg, peer, sent>>

BothWriteString(h, size) ==
  /\ c.panic = ""
  /\ h \in DOMAIN writers
  /\ \E r \in {WriteStringOp(c, writers[h], Pay(size))} :
        Touched("WriteString", WrRet(r, FALSE, r.n))
  /\ UNCHANGED <<netUp, peerClosed, writers, readers, rpc, wmsg, rmsg, peer, sent>>

BothClose(h) ==
  /\ c.panic = ""
  /\ h \in DOMAIN writers
  /\ \E r \in {CloseOp(c, writers[h])} : Touched("Close", WrRet(r, FALSE, 0))
  /\ UNCHANGED <<netUp, peerClosed, writers, readers, rpc, wmsg, rmsg, peer, sent>>

BothSendClose(closeCode, message) ==
  /\ c.panic = ""
  /\ \E r \in {SendCloseOp(c, closeCode, message)} :
        Touched("SendClose", WrRet(r, FALSE, 0))
  /\ UNCHANGED <<netUp, peerClosed, writers, readers, rpc, wmsg, rmsg, peer, sent>>

\* a run of NextReader, from its call or from where it waited
BothNextReader ==
  /\ c.panic = ""
  /\ IF rpc.at = "idle" THEN c.readSeq < MaxReadSeq ELSE rpc.at = "NextReader"
  /\ \E r \in {IF rpc.at = "idle" THEN NextReaderOp(c) ELSE nextReaderLoop(c, <<>>)} :
        /\ r.st # "wait" \/ rpc.at = "idle" \/ onWire(r.c) # c
        /\ Touched("NextReader", r)
        /\ rpc' = IF r.st = "wait" THEN [at |-> "NextReader", seq |-> NoOp, n |-> 0] ELSE Idle
        /\ readers' = IF r.handle THEN lastTwo(Append(readers, r.c.readSeq)) ELSE readers
  /\ UNCHANGED <<netUp, peerClosed, writers, wmsg, rmsg, peer, sent>>

\* a run of Read, from its call or from where it waited
BothRead(h, n) ==
  /\ c.panic = ""
  /\ IF rpc.at = "idle" THEN h \in DOMAIN readers
                        ELSE rpc.at = "Read" /\ n = rpc.n /\ h = rpc.seq
  /\ \E r \in {IF rpc.at = "idle" THEN ReadOp(c, readers[h], n) ELSE readLoop(c, n, <<>>)} :
        /\ r.st # "wait" \/ rpc.at = "idle" \/ onWire(r.c) # c
        /\ Touched("Read", r)
        /\ rpc' = IF r.st = "wait" THEN [at |-> "Read", seq |-> h, n |-> n] ELSE Idle
  /\ UNCHANGED <<netUp, peerClosed, writers, readers, wmsg, rmsg, peer, sent>>

(***************************************************************************)
(* Specifications.                                                         *)
(***************************************************************************)
\* the handles the application calls: the valid one and the latest of the
\* others
Called(hs, seq) ==
  {h \in DOMAIN hs : hs[h] = seq \/ \A g \in DOMAIN hs : g > h => hs[g] = seq}

NextWriterSide ==
  \/ \E op \in WriterOpCodes : NextWriter(op)
  \/ \E h \in Called(writers, c.writeSeq) : \E n \in WriteSizes : Write(h, n)
  \/ \E h \in Called(writers, c.writeSeq) : \E n \in WriteStringSizes : WriteString(h, n)
  \/ \E h \in Called(writers, c.writeSeq) : Close(h)

NextSendClose == \E a \in CloseArgs : SendClose(a[1], a[2])

NextReaderSide ==
  \/ NextReader
  \/ NextReaderResume
  \/ \E h \in DOMAIN readers : \E n \in ReadSizes : Read(h, n)
  \/ ReadResume

\* the message writer, SendClose and the transport
NextW == NextWriterSide \/ NextSendClose \/ NetDown \/ NetUp
SpecW == Init /\ [][NextW]_vars

\* the reader and a peer that keeps to the protocol
NextR ==
  \/ NextReaderSide
  \/ \E f \in DataFrames \cup ExtFrames \cup PingPongFrames : PeerSend(f)
SpecR == Init /\ [][NextR]_vars

\* the reader with a peer that closes or breaks the protocol, SendClose and a
\* transport that fails
NextE ==
  \/ NextReaderSide
  \/ \E f \in ErrFrames : PeerSend(f)
  \/ NextSendClose
  \/ NetDown
SpecE == Init /\ [][NextE]_vars

\* frames after which the reader fails, with the data and control frames that
\* come before
LatchFrames ==
  { PeerFrame(fin, 0, OpText, TRUE, "7", Pay(2)) : fin \in BOOLEAN }
  \cup { PeerFrame(TRUE, 0, OpPong, TRUE, "7", Pay(2)),
         PeerFrame(TRUE, 0, OpClose, TRUE, "7", BE16(CloseNormalClosure)),
         PeerFrame(TRUE, 0, OpClose, TRUE, "7", BE16(CloseMessageTooBig)),
         PeerFrame(TRUE, 1, OpText, TRUE, "7", Pay(1)) }

\* the reader with every way its reads fail: a protocol error, a Close of the
\* peer, a stream that ends inside a frame or between frames, a transport
\* that fails
NextL ==
  \/ NextReaderSide
  \/ \E f \in LatchFrames : PeerSend(f)
  \/ \E f \in CutFrames : \E k \in {1, Len(Encode(f)) - 1} : PeerSendCut(f, k)
  \/ PeerClose
  \/ NetDown
SpecL == Init /\ [][NextL]_vars

\* the frames that make the reader write: a Ping, a Close, a malformed frame
WriteFrames ==
  { PeerFrame(TRUE, 0, OpPing, TRUE, "7", Pay(2)),
    PeerFrame(TRUE, 0, OpClose, TRUE, "7", BE16(CloseNormalClosure)),
    PeerFrame(TRUE, 1, OpText, TRUE, "7", Pay(1)) }

\* all the callers of Conn.write side by side: a message writer, the reader
\* and SendClose
NextC ==
  \/ \E op \in {OpText, OpClose} : NextWriter(op)
  \/ \E h \in Called(writers, c.writeSeq) : Write(h, WriteBufSize + 1)
  \/ \E h \in Called(writers, c.writeSeq) : Close(h)
  \/ NextReader
  \/ NextReaderResume
  \/ \E f \in WriteFrames : PeerSend(f)
  \/ NextSendClose
  \/ NetDown
SpecC == Init /\ [][NextC]_vars

\* the frames of the peer the reader task answers or reads
TaskFrames ==
  { PeerFrame(TRUE, 0, OpPing, TRUE, "7", Pay(2)),
    PeerFrame(TRUE, 0, OpClose, TRUE, "7", BE16(CloseNormalClosure)),
    PeerFrame(FALSE, 0, OpText, TRUE, "7", Pay(1)) }

\* the writer task, whose every Write passes its bytes by the buffer, the
\* reader task and the tasks that call SendClose, over a transport that works
NextM ==
  \/ TaskNextWriter(OpText)
  \/ \E h \in Called(writers, c.writeSeq) :
        TaskWrite(h, (2 * (WriteBufSize + maxFrameHeaderSize)) + 1)
  \/ \E h \in Called(writers, c.writeSeq) : TaskClose(h)
  \/ \E t \in {"closer1", "closer2"} : \E a \in CloseArgs : TaskSendClose(t, a[1], a[2])
  \/ TaskNextReader
  \/ \E h \in DOMAIN readers : TaskRead(h, 1)
  \/ \E t \in Tasks : WriteBuf(t)
  \/ \E f \in TaskFrames : PeerSend(f)
SpecM == Init /\ [][NextM]_vars

\* data frames with a 64-bit length, with the top bit of the length clear and
\* set
LengthFrames ==
  { PeerFrame(fin, 0, op, TRUE, enc, Pay(1)) :
       fin \in BOOLEAN, op \in {OpBinary, OpContinuation}, enc \in {"64", "64hi"} }

\* the reader with a peer that sends 64-bit lengths
NextN ==
  \/ NextReaderSide
  \/ \E f \in LengthFrames : PeerSend(f)
SpecN == Init /\ [][NextN]_vars

\* the writer of data and control messages with large writes
NextB ==
  \/ \E op \in {OpBinary, OpClose, OpPing} : BigNextWriter(op)
  \/ \E h \in Called(writers, c.writeSeq) : \E n \in BigSizes : BigWrite(h, n)
  \/ \E h \in Called(writers, c.writeSeq) : BigClose(h)
SpecB == InitB /\ [][NextB]_vars

\* close codes and reasons of the application, the reasons up to the length
\* at which len(message) + 2 no longer fits in a byte
CloseCodes == {CloseNormalClosure, CloseProtocolError, CloseMessageTooBig}
CloseReasons == {Fill(n) : n \in {0, 2, 123, 124, 125, 126, 254}}

\* SendClose with any code and reason, over a transport that can fail
NextS ==
  \/ \E closeCode \in CloseCodes : \E message \in CloseReasons :
        SendClose(closeCode, message)
  \/ NetDown
  \/ NetUp
SpecS == Init /\ [][NextS]_vars

\* the frames that make the reader write, and a message in two frames
BothFrames ==
  { PeerFrame(TRUE, 0, OpPing, TRUE, "7", Pay(2)),
    PeerFrame(FALSE, 0, OpText, TRUE, "7", Pay(2)),
    PeerFrame(TRUE, 0, OpContinuation, TRUE, "7", Pay(2)) }

\* every method of the writer and of the reader, SendClose, and a transport
\* that fails
NextD ==
  \/ BothNextWriter(OpText)
  \/ \E h \in Called(writers, c.writeSeq) : BothWrite(h, WriteBufSize + 1)
  \/ \E h \in Called(writers, c.writeSeq) : BothWriteString(h, WriteBufSize + 1)
  \/ \E h \in Called(writers, c.writeSeq) : BothClose(h)
  \/ \E a \in CloseArgs : BothSendClose(a[1], a[2])
  \/ BothNextReader
  \/ \E h \in DOMAIN readers : BothRead(h, 3)
  \/ \E f \in BothFrames : PeerSend(f)
  \/ NetDown
SpecD == Init /\ [][NextD]_vars

\* one flushFrame on each prepared connection
NextH == FlushFrame
SpecH == InitH /\ [][NextH]_vars

\* the writeBufSize arguments NewServerConn is called with: it makes a buffer
\* of writeBufSize + maxFrameHeaderSize bytes for every one that is not below
\* -maxFrameHeaderSize, so for 0 too
BufSizes == {0, 1, WriteBufSize}

InitZ ==
  \E size \in BufSizes :
    /\ c = NewServerConn(size)
    /\ netUp = TRUE
    /\ peerClosed = FALSE
    /\ writers = <<>>
    /\ readers = <<>>
    /\ ret = Returned("none", NoOp, WrRet([c |-> NewServerConn(size), err |-> Nil], FALSE, 0),
                       NewServerConn(size), FALSE)
    /\ rpc = Idle
    /\ wmsg = NoWmsg
    /\ rmsg = NoRmsg
    /\ peer = Sent(NoFrame, 0)
    /\ sent = [api |-> FALSE, closes |-> 0, after |-> FALSE]

\* the message writer on a transport that works, for every size of the
\* buffer; a call that does not return is the last one of the task
Running == ret.err # Hang

NextZ ==
  \/ \E op \in WriterOpCodes : Running /\ NextWriter(op)
  \/ \E h \in Called(writers, c.writeSeq) : \E n \in WriteSizes : Running /\ Write(h, n)
  \/ \E h \in Called(writers, c.writeSeq) : \E n \in WriteStringSizes :
        Running /\ WriteString(h, n)
  \/ \E h \in Called(writers, c.writeSeq) : Running /\ Close(h)
SpecZ == InitZ /\ [][NextZ]_vars

(***************************************************************************)
(* The operations of the public surface, by the names ret.op takes.        *)
(***************************************************************************)
WriteOps == {"NextWriter", "Write", "WriteString", "Close", "SendClose"}
ReadOps == {"NextReader", "Read"}

(***************************************************************************)
(* C1.  Once closeSent is true no call of Conn.write passes a byte to the  *)
(* transport: a call of the public surface that began with closeSent true  *)
(* has written nothing, whichever of the writer, the reader and SendClose  *)
(* made it.  SendClose leaves closeSent true also when its transport write *)
(* failed.  So the wire carries at most one Close frame and no byte after  *)
(* it.                                                                     *)
(***************************************************************************)
C1_CloseSentSilencesWrites ==
  /\ ret.was.closeSent => ret.out = <<>> /\ c.closeSent
  /\ ret.op = "SendClose" => c.closeSent
  /\ sent.closes > 0 => c.closeSent
  /\ sent.closes <= 1
  /\ ~sent.after

\* the reader parsed a Ping after the Close frame had gone out: its call of
\* Conn.write for the Pong wrote nothing
C1_Witness ==
  /\ ret.op = "NextReader"
  /\ ret.was.closeSent
  /\ ret.nwrite > 0
  /\ \E i \in DOMAIN ret.adv : ret.adv[i].op = OpPing
  /\ sent.closes = 1

(***************************************************************************)
(* C2, as stated.  After SendClose has returned, every write operation of  *)
(* the public surface that is given a valid opcode and a valid handle      *)
(* fails with ErrCloseSent (the calls that fail on their arguments alone:  *)
(* bad opcode, closed writer, invalid control frame, are left out).        *)
(***************************************************************************)
ArgumentErrors == {ErrBadOpcode, ErrClosedWriter, ErrInvalidControl}

C2_EveryWriteFails ==
  ret.api /\ ret.op \in WriteOps /\ ret.err \notin ArgumentErrors
    => ret.err = ErrCloseSent

(***************************************************************************)
(* C2, amended.  After SendClose has returned no write operation puts a    *)
(* byte on the wire, and an operation fails with ErrCloseSent exactly when *)
(* it calls Conn.write: SendClose always does; NextWriter with no active   *)
(* writer and a Write or WriteString that fits in the buffer do not, and   *)
(* return nil.                                                             *)
(***************************************************************************)
C2_NoBytesAfterSendClose ==
  ret.api /\ ret.op \in WriteOps =>
    /\ ret.out = <<>>
    /\ ret.err = ErrCloseSent <=> ret.nwrite > 0
    /\ ret.op = "SendClose" => ret.err = ErrCloseSent
    /\ ret.err \in {Nil, ErrCloseSent} \cup ArgumentErrors
    /\ ret.op = "NextWriter" /\ ret.err = Nil => ret.handle
    /\ ret.op \in {"Write", "WriteString"} /\ ret.err = Nil => Len(c.writeBuf) >= ret.n

\* after SendClose, a Write that had to flush failed with ErrCloseSent
C2_Witness ==
  /\ ret.api
  /\ ret.op = "Write"
  /\ ret.nwrite > 0
  /\ ret.err = ErrCloseSent

(***************************************************************************)
(* C3.  When Close returns nil on a Text or Binary writer all of whose     *)
(* Write and WriteString calls returned nil, the frames written for the    *)
(* message are unmasked, their payloads make up the written bytes in       *)
(* order, the first carries the opcode of the message, the later ones      *)
(* Continuation, and the last one and only it has FIN=1.                   *)
(***************************************************************************)

MessageClosed ==
  /\ ret.op = "Close"
  /\ ret.err = Nil
  /\ ret.seq = wmsg.seq
  /\ wmsg.ok
  /\ wmsg.op \in {OpText, OpBinary}

C3_MessageFraming ==
  MessageClosed =>
    LET fs == ParseFrames(wmsg.wire)
    IN /\ Len(fs) >= 1
       /\ Payloads(fs) = wmsg.data
       /\ fs[1].op = wmsg.op
       /\ \A i \in DOMAIN fs :
            /\ i > 1 => fs[i].op = OpContinuation
            /\ fs[i].fin <=> i = Len(fs)
            /\ fs[i].rsv = 0
            /\ ~fs[i].mask

\* a message of three frames or more, one of its writes larger than twice the
\* buffer
C3_Witness ==
  /\ MessageClosed
  /\ Len(ParseFrames(wmsg.wire)) >= 3
  /\ Len(wmsg.data) > 2 * c.writeBufLen

(***************************************************************************)
(* C4.  With a peer that sends whole, masked frames over a transport that  *)
(* works, the bytes Read returns on the handle of a message are, at every  *)
(* moment and for every choice of buffer sizes, the first bytes of the     *)
(* payloads of the message's frames in order, each unmasked with its own   *)
(* frame's key, and all of them when Read returns end-of-stream, which it  *)
(* does only after the FIN=1 frame; control frames may come in between.    *)
(* maskPos stays in 0..3 and, once the header of a frame is parsed, is the *)
(* number of bytes of that frame consumed so far, modulo 4 (so 0 right     *)
(* after the header).                                                      *)
(***************************************************************************)
IsPrefix(p, q) == Len(p) <= Len(q) /\ SubSeq(q, 1, Len(p)) = p

\* the header of the peer's last frame is parsed: what is left in br is the
\* rest of its payload
Parsed == peer.f.op # NoOp /\ Len(c.br) <= Len(peer.f.plain)

EndOfMessage == ret.op = "Read" /\ ret.err = EOF /\ rmsg.op # NoOp /\ ret.seq = rmsg.seq

C4_MessageDelivered ==
  /\ c.maskPos \in 0..3
  /\ Parsed => c.maskPos = (Len(peer.f.plain) - Len(c.br)) % 4
  /\ rmsg.op # NoOp => IsPrefix(rmsg.delivered, rmsg.expected)
  /\ EndOfMessage => rmsg.delivered = rmsg.expected /\ rmsg.fin

\* a message of two frames with a Pong between them, read to its end in
\* pieces
C4_Witness ==
  /\ EndOfMessage
  /\ Len(rmsg.delivered) = MaxMsgLen
  /\ c.hasPong

(***************************************************************************)
(* Frames the reader got to, as the peer sent them.                        *)
(***************************************************************************)
\* the run of the last call got to a frame that the peer had sent whole
GotFrame ==
  /\ ret.op \in ReadOps
  /\ ret.frame.f.op # NoOp
  /\ ret.frame.k = Len(Encode(ret.frame.f))

Control(f) == f.op \in {OpClose, OpPing, OpPong}

\* a control frame as RFC 6455 allows it
ValidControl(f) ==
  /\ f.fin
  /\ f.rsv = 0
  /\ f.mask
  /\ f.enc = "7"
  /\ Len(f.plain) <= maxControlFramePayloadSize

WireFrame(op, payload) ==
  [op |-> op, fin |-> TRUE, rsv |-> 0, mask |-> FALSE, payload |-> payload]

PingParsed == GotFrame /\ ret.frame.f.op = OpPing /\ ValidControl(ret.frame.f)

(***************************************************************************)
(* C5, as stated.  Whenever the reader has parsed a Ping with payload P,   *)
(* in every state of the connection, the call that parsed it has written a *)
(* Pong frame (FIN=1, opcode 10, unmasked, payload P) to the transport     *)
(* before it returns or waits for the next frame.                          *)
(***************************************************************************)
C5_PongAlwaysWritten ==
  PingParsed => ParseFrames(ret.out) = << WireFrame(OpPong, ret.frame.f.plain) >>

(***************************************************************************)
(* C5, amended.  The call that parsed a Ping with payload P has called     *)
(* Conn.write once before it returns or waits for the next frame, and      *)
(* advanceFrame has returned the Ping with no error; the Pong frame with   *)
(* payload P is on the transport unless closeSent was already true, when   *)
(* nothing is written, or the transport fails.  closeSent is left as it    *)
(* was.                                                                    *)
(***************************************************************************)
C5_PongUnlessClosed ==
  PingParsed =>
    /\ ret.adv[1] = [op |-> OpPing, err |-> Nil]
    /\ ret.nwrite = 1
    /\ c.closeSent = ret.was.closeSent
    /\ IF ret.was.closeSent \/ ~ret.up
       THEN ret.out = <<>>
       ELSE ParseFrames(ret.out) = << WireFrame(OpPong, ret.frame.f.plain) >>

\* Read parsed a Ping inside a message after the Close frame had gone out,
\* wrote nothing and went on to wait for the next frame
C5_Witness ==
  /\ PingParsed
  /\ ret.op = "Read"
  /\ ret.was.closeSent
  /\ ret.up
  /\ ret.st = "wait"
  /\ ret.out = <<>>

(***************************************************************************)
(* C6.  When the reader gets to a frame with one of the seven defects      *)
(* (reserved bits, unknown opcode, MASK bit 0, control frame with FIN=0,   *)
(* control frame with 7-bit length above 125, Text or Binary frame while   *)
(* readFinal is false, Continuation frame while readFinal is true),        *)
(* NextReader or Read returns the protocol error of one of the frame's     *)
(* defects with no handle and no byte, readErr holds it, SendClose(1002,   *)
(* message) was called once and closeSent is true; the Close frame with    *)
(* code 1002 and the message is on the wire unless closeSent was already   *)
(* true or the transport fails.                                            *)
(***************************************************************************)
ProtocolMessages ==
  { "unexpected reserved bits", "control frame length > 125", "control frame not final",
    "message start before final message frame", "continuation after final message frame",
    "unknown opcode", "improper masking" }

Defects(f, readFinal) ==
  { m \in ProtocolMessages :
      \/ m = "unexpected reserved bits" /\ f.rsv # 0
      \/ m = "unknown opcode" /\ f.op \notin {0, 1, 2, 8, 9, 10}
      \/ m = "improper masking" /\ ~f.mask
      \/ m = "control frame not final" /\ Control(f) /\ ~f.fin
      \/ m = "control frame length > 125" /\ Control(f) /\ f.enc # "7"
      \/ m = "message start before final message frame"
           /\ f.op \in {OpText, OpBinary} /\ ~readFinal
      \/ m = "continuation after final message frame"
           /\ f.op = OpContinuation /\ readFinal }

Malformed == GotFrame /\ Defects(ret.frame.f, ret.was.readFinal) # {}

C6_ProtocolError ==
  Malformed =>
    /\ ret.err \in { ErrProtocol(m) : m \in Defects(ret.frame.f, ret.was.readFinal) }
    /\ c.readErr = ret.err
    /\ ~ret.handle
    /\ ret.n = 0
    /\ ret.data = <<>>
    /\ ret.nwrite = 1
    /\ c.closeSent
    /\ IF ret.was.closeSent \/ ~ret.up
       THEN ret.out = <<>>
       ELSE ParseFrames(ret.out) =
              << WireFrame(OpClose, BE16(CloseProtocolError) \o MessageBytes(ret.err.msg)) >>

\* Read got to a Text frame in the middle of a fragmented message and the
\* Close frame went out
C6_Witness ==
  /\ Malformed
  /\ ret.op = "Read"
  /\ ret.frame.f.op = OpText
  /\ ret.frame.f.rsv = 0
  /\ ret.frame.f.mask
  /\ ret.err = ErrProtocol("message start before final message frame")
  /\ Len(ret.out) > 0
  /\ c.closeSent

(***************************************************************************)
(* C7, as stated.  Whenever the reader has parsed a valid Close frame, the *)
(* bytes 0x88 0x00 have been written to the transport, and the call        *)
(* returns end-of-stream when the payload has fewer than 2 bytes or its    *)
(* code is 1000 or 1001, and otherwise the error with the code and the     *)
(* reason.                                                                 *)
(***************************************************************************)
CloseParsed == GotFrame /\ ret.frame.f.op = OpClose /\ ValidControl(ret.frame.f)

CloseResult(P) ==
  IF Len(P) < 2 THEN EOF
  ELSE IF (256 * P[1]) + P[2] \in {1000, 1001} THEN EOF
  ELSE ErrPeerClose((256 * P[1]) + P[2], SubSeq(P, 3, Len(P)))

C7_CloseEchoed ==
  CloseParsed =>
    /\ ret.out = <<136, 0>>
    /\ ret.err = CloseResult(ret.frame.f.plain)

(***************************************************************************)
(* C7, amended.  The call that parsed a valid Close frame has called       *)
(* Conn.write once, closeSent is true afterwards, and the call returns     *)
(* end-of-stream or the error with the code and the reason as stated,      *)
(* which readErr holds; the bytes 0x88 0x00 are on the transport unless    *)
(* closeSent was already true, when nothing is written, or the transport   *)
(* fails.                                                                  *)
(***************************************************************************)
C7_CloseEchoedOnce ==
  CloseParsed =>
    /\ ret.err = CloseResult(ret.frame.f.plain)
    /\ c.readErr = ret.err
    /\ ret.nwrite = 1
    /\ c.closeSent
    /\ ret.out = (IF ret.was.closeSent \/ ~ret.up THEN <<>> ELSE <<136, 0>>)

\* the peer answered the Close frame of SendClose with Close(1009, "too big"):
\* no second Close frame went out
C7_Witness ==
  /\ CloseParsed
  /\ ret.api
  /\ ret.was.closeSent
  /\ ret.up
  /\ ret.err.kind = "peer"
  /\ ret.err.code = CloseMessageTooBig
  /\ ret.out = <<>>

(***************************************************************************)
(* C8.  Once readErr is not nil it stays what it is, whatever is called:   *)
(* every error advanceFrame returns is stored in readErr and returned by   *)
(* the call, and every later NextReader with no saved Pong and every later *)
(* Read on the valid handle returns readErr without calling advanceFrame   *)
(* and without reading from the transport (Read leaves the connection as   *)
(* it was).                                                                *)
(***************************************************************************)
C8_ReadErrLatched ==
  /\ ret.was.readErr # Nil => c.readErr = ret.was.readErr
  /\ \A i \in DOMAIN ret.adv :
       ret.adv[i].err # Nil => i = Len(ret.adv) /\ c.readErr = ret.adv[i].err /\ ret.err = c.readErr
  /\ ret.op = "NextReader" /\ ret.was.readErr # Nil /\ ~ret.was.hasPong =>
       /\ ret.st = "ret"
       /\ ret.err = ret.was.readErr
       /\ ~ret.handle
       /\ ret.adv = <<>>
       /\ ret.brSame
       /\ ret.out = <<>>
  /\ ret.op = "Read" /\ ret.was.readErr # Nil /\ ret.seq = ret.was.readSeq =>
       /\ ret.st = "ret"
       /\ ret.err = ret.was.readErr
       /\ ret.n = 0
       /\ ret.adv = <<>>
       /\ ret.same

\* NextReader after a protocol error: the rest of the frame is still unread
C8_Witness ==
  /\ ret.op = "NextReader"
  /\ ret.was.readErr.kind = "protocol"
  /\ ~ret.was.hasPong
  /\ ret.err = ret.was.readErr
  /\ Len(c.br) > 0

(***************************************************************************)
(* C9, the part on NextWriter as stated.  A NextWriter call made while a   *)
(* writer is active, in a run of NextWriter, Write, WriteString and Close  *)
(* calls with no transport error, has emitted the buffered bytes of that   *)
(* writer as one FIN=1 frame.                                              *)
(***************************************************************************)
\* the one frame NextWriter flushes for the writer it found active
FlushedFinal(r) ==
  ParseFrames(r.out) =
    << [op |-> r.was.writeOpCode, fin |-> TRUE, rsv |-> 0, mask |-> FALSE,
        payload |-> r.was.writeBuf] >>

NextWriterOnActive == ret.op = "NextWriter" /\ ret.was.writeOpCode # NoOp

ValidWriters == {h \in DOMAIN writers : writers[h] = c.writeSeq}

ValidReaders == {h \in DOMAIN readers : readers[h] = c.readSeq}

StaleRead == ret.op = "Read" /\ ret.seq # ret.was.readSeq

C10_ReaderHandles ==
  /\ Cardinality(ValidReaders) <= 1
  /\ c.readSeq >= ret.was.readSeq
  /\ ret.op = "NextReader" => ValidReaders \subseteq (IF ret.handle THEN {Len(readers)} ELSE {})
  /\ ret.op = "Read" /\ (ret.n > 0 \/ Len(ret.data) > 0) => ret.seq = ret.was.readSeq
  /\ ret.op = "Read" /\ ret.err = EOF => ret.seq < c.readSeq
  /\ StaleRead =>
       /\ ret.st = "ret"
       /\ ret.n = 0
       /\ ret.data = <<>>
       /\ ret.err = EOF
       /\ ret.adv = <<>>
       /\ ret.brSame
       /\ ret.same

\* Read on the handle of a message that NextReader has left, while the payload
\* of the next message waits to be read
C10_Witness ==
  /\ StaleRead
  /\ Len(readers) = 2
  /\ ValidReaders = {2}
  /\ c.readLength > 0
  /\ Len(c.br) = c.readLength

(***************************************************************************)
(* C11.  With a writer task, a reader task and tasks that call SendClose   *)
(* running together over a transport that takes every write, at most one   *)
(* task is inside Conn.write, and what is on the transport, followed by    *)
(* the buffers that task has still to write, is the frames in the order    *)
(* the mutex was taken: whole frames of the server, each with its header,  *)
(* buffered payload and passed-by payload together, so that a control      *)
(* frame comes between frames and never inside one.                        *)
(***************************************************************************)
RECURSIVE Flat(_)
Flat(bufs) == IF Len(bufs) = 0 THEN <<>> ELSE Head(bufs) \o Flat(Tail(bufs))

Inside == {t \in Tasks : c.mu[t] # <<>>}

WholeFrames(w) ==
  \A i \in DOMAIN ParseFrames(w) :
     LET f == ParseFrames(w)[i]
     IN /\ f.op \in {OpContinuation, OpText, OpBinary, OpClose, OpPing, OpPong}
        /\ f.rsv = 0
        /\ ~f.mask
        /\ f.op \in {OpClose, OpPing, OpPong} => f.fin /\ Len(f.payload) <= maxControlFramePayloadSize

C11_WholeFramesInLockOrder ==
  /\ Cardinality(Inside) <= 1
  /\ c.nwrite <= 1
  /\ \E bufs \in {c.mu[t] : t \in Inside} \cup {<<>>} :
        /\ Inside = {} => bufs = <<>>
        /\ Inside # {} => bufs # <<>>
        /\ c.conn \o Flat(bufs) = c.order
  /\ WholeFrames(c.order)

\* the reader's Pong is on the transport between the two data frames of the
\* writer's message, the first written with its payload passed by the
\* buffer, while the writer is inside Conn.write with the second
C11_Witness ==
  /\ Len(ParseFrames(c.order)) = 3
  /\ ParseFrames(c.order)[1].op = OpText
  /\ ~ParseFrames(c.order)[1].fin
  /\ Len(ParseFrames(c.order)[1].payload) > 2 * c.writeBufLen
  /\ ParseFrames(c.order)[2] = WireFrame(OpPong, Pay(2))
  /\ ParseFrames(c.order)[3].op = OpContinuation
  /\ ParseFrames(c.order)[3].fin
  /\ c.mu["writer"] # <<>>
  /\ c.conn # c.order

(***************************************************************************)
(* C12, as stated.  Whenever NextReader has run on a stream of the peer    *)
(* in which advanceFrame found no fault, also when the reader of a         *)
(* fragmented message was not read to its end, it has returned Text,       *)
(* Binary or Pong with a reader that is the only valid one, or an error:   *)
(* it has not stopped the program with "unexpected continuation".  The     *)
(* code stops there when the next frame continues the unread message.      *)
(***************************************************************************)
C12_NextReaderNeverAborts ==
  ret.op = "NextReader" /\ ret.st # "wait" /\ c.readErr = Nil =>
     /\ ret.st # "panic"
     /\ c.panic # "unexpected continuation"
     /\ ret.opCode \in {OpText, OpBinary, OpPong}
     /\ ret.seq # NoOp => ret.seq = c.readSeq

(***************************************************************************)
(* C13.  For a frame of L bytes flushFrame puts the header at offset 12 of *)
(* the write buffer as (b0, L) when L <= 125, at offset 10 as (b0, 126,    *)
(* L in 2 bytes, high byte first) when 126 <= L <= 65535, and at offset 4  *)
(* as (b0, 127, L in 8 bytes, high byte first) when L >= 65536, with b0    *)
(* the opcode plus 0x80 when the frame is final and the mask bit 0; the    *)
(* header ends at offset maxFrameHeaderSize, where the buffered payload    *)
(* begins, and the transport gets the header and then the payload.         *)
(***************************************************************************)
HeaderOf(b0, L) ==
  IF L <= 125 THEN <<b0, L>>
  ELSE IF L <= 65535 THEN <<b0, 126, (L \div 256) % 256, L % 256>>
  ELSE <<b0, 127, 0, 0, 0, 0,
         (L \div 16777216) % 256, (L \div 65536) % 256, (L \div 256) % 256, L % 256>>

OffsetOf(L) == IF L <= 125 THEN 12 ELSE IF L <= 65535 THEN 10 ELSE 4

C13_HeaderEncoding ==
  ret.op = "flushFrame" =>
     LET b0 == ret.opCode + (IF ret.final THEN 128 ELSE 0)
         hdr == HeaderOf(b0, ret.length)
     IN /\ ret.header.pos = OffsetOf(ret.length)
        /\ ret.header.pos + Len(hdr) = maxFrameHeaderSize
        /\ SubSeq(ret.header.buf, ret.header.pos + 1, maxFrameHeaderSize) = hdr
        /\ hdr[2] < 128
        /\ ret.err = Nil
        /\ ret.n = Len(hdr) + ret.length
        /\ IsPrefix(hdr, ret.out)
        /\ ret.payload

\* a final Binary frame of 65536 bytes, one of them buffered, went out with
\* the 8-byte length
C13_Witness ==
  /\ ret.op = "flushFrame"
  /\ ret.length = 65536
  /\ ret.final
  /\ ret.opCode = OpBinary
  /\ ret.header.pos = 4
  /\ ret.buffered = Fill(1)
  /\ SubSeq(ret.out, 1, 11) = <<130, 127, 0, 0, 0, 0, 0, 1, 0, 0, 98>>
  /\ ret.n = 65546

(***************************************************************************)
(* C14, as stated.  Whenever a run of the reader got to a data frame of    *)
(* the peer whose length marker is 127 and whose 64-bit length has the top *)
(* bit set, the run has returned an error that is latched, and no reader:  *)
(* the frame neither begins, continues nor ends a message.  The code takes *)
(* the length as a negative int64 and returns the frame as a data frame.   *)
(***************************************************************************)
C14_HighBitLengthRejected ==
  GotFrame /\ ret.frame.f.enc = "64hi" /\ ret.st # "wait" =>
     /\ ret.err \notin {Nil, EOF}
     /\ c.readErr = ret.err
     /\ ~ret.handle
     /\ c.readFinal = ret.was.readFinal

(***************************************************************************)
(* C15, as stated.  After NextWriter(Binary), one Write of 70000 bytes on  *)
(* the empty 4096-byte buffer and Close, the transport carries the payload *)
(* in one frame with FIN=1 and opcode Binary (first byte 0x82), the length *)
(* marker 0x7F and the 8-byte length 70000 (a header of 10 bytes).         *)
(***************************************************************************)
OneLargeWrite ==
  /\ ret.op = "Close"
  /\ ret.err = Nil
  /\ ret.seq = wmsg.seq
  /\ Len(wmsg.sizes) = 1
  /\ wmsg.sizes[1] > 2 * c.writeBufLen

C15_SingleFinalFrame ==
  OneLargeWrite =>
     /\ wmsg.frames = << [op |-> wmsg.op, fin |-> TRUE, rsv |-> 0, mask |-> FALSE,
                          header |-> IF wmsg.sizes[1] >= 65536 THEN 10 ELSE 4,
                          length |-> wmsg.sizes[1]] >>
     /\ wmsg.kept

(***************************************************************************)
(* C15, amended.  After NextWriter, one Write of more than twice the       *)
(* buffer on the empty buffer and Close, the transport carries the payload *)
(* in one frame with FIN=0 and the opcode of the message (first byte 0x02  *)
(* for Binary), the length marker 0x7F and the 8-byte length for 70000     *)
(* bytes, and after it the empty frame 0x80 0x00 that Close writes: FIN=1, *)
(* opcode Continuation, length 0.                                          *)
(***************************************************************************)
C15_LargeWriteThenEmptyFinal ==
  OneLargeWrite =>
     /\ wmsg.frames = << [op |-> wmsg.op, fin |-> FALSE, rsv |-> 0, mask |-> FALSE,
                          header |-> IF wmsg.sizes[1] >= 65536 THEN 10 ELSE 4,
                          length |-> wmsg.sizes[1]],
                         [op |-> OpContinuation, fin |-> TRUE, rsv |-> 0, mask |-> FALSE,
                          header |-> 2, length |-> 0] >>
     /\ wmsg.kept
     /\ ret.frames = << wmsg.frames[2] >>

C15_Witness ==
  /\ OneLargeWrite
  /\ wmsg.op = OpBinary
  /\ wmsg.sizes = <<70000>>
  /\ c.writeBufLen = upgradeWriteBufSize + maxFrameHeaderSize
  /\ wmsg.frames[1].length = 70000
  /\ wmsg.frames[1].header = 10

(***************************************************************************)
(* C16.  On a writer opened with opcode Close or Ping, a Write that has to *)
(* flush (it passes the buffer by, or the buffer gets full) and a Close or *)
(* NextWriter that finds more than 125 bytes buffered fail with the        *)
(* invalid-control-frame error; a call that fails with it has written no   *)
(* byte, has left closeSent as it was, and leaves writePos =               *)
(* maxFrameHeaderSize, writeOpCode = -1 and writeSeq one higher, so the    *)
(* handle is invalid.  Every Ping or Close frame a message writer puts on   *)
(* the transport has FIN=1 and at most 125 bytes of payload.               *)
(***************************************************************************)
ControlWriter == ret.was.writeOpCode \in {OpClose, OpPing}

\* the call had to flush a frame that a control writer may not send
InvalidFlush ==
  /\ ControlWriter
  /\ \/ /\ ret.op = "Write"
        /\ ret.seq = ret.was.writeSeq
        /\ \/ ret.size > 2 * c.writeBufLen
           \/ Len(ret.was.writeBuf) + ret.size > c.writeBufLen - maxFrameHeaderSize
     \/ /\ ret.op = "Close"
        /\ ret.seq = ret.was.writeSeq
        /\ Len(ret.was.writeBuf) > maxControlFramePayloadSize
     \/ /\ ret.op = "NextWriter"
        /\ Len(ret.was.writeBuf) > maxControlFramePayloadSize

C16_InvalidControlFrame ==
  /\ InvalidFlush => ret.err = ErrInvalidControl
  /\ ret.err = ErrInvalidControl =>
        /\ InvalidFlush
        /\ ret.frames = <<>>
        /\ c.closeSent = ret.was.closeSent
        /\ c.writePos = maxFrameHeaderSize
        /\ c.writeBuf = <<>>
        /\ c.writeOpCode = NoOp
        /\ c.writeSeq = ret.was.writeSeq + 1
        /\ \A h \in DOMAIN writers : writers[h] # c.writeSeq
  /\ \A i \in DOMAIN ret.frames :
        ret.frames[i].op \in {OpClose, OpPing} =>
           ret.frames[i].fin /\ ret.frames[i].length <= maxControlFramePayloadSize

\* Close on a Ping writer with 126 bytes buffered has failed
C16_Witness ==
  /\ ret.op = "Close"
  /\ ret.err = ErrInvalidControl
  /\ ret.was.writeOpCode = OpPing
  /\ Len(ret.was.writeBuf) = maxControlFramePayloadSize + 1
  /\ ~c.closeSent
  /\ c.writeSeq = ret.was.writeSeq + 1

(***************************************************************************)
(* C17, as stated.  Between the calls of NextWriter, Write, WriteString    *)
(* and Close, writeOpCode is -1 exactly when nothing is buffered, that is  *)
(* when writePos = maxFrameHeaderSize.                                     *)
(***************************************************************************)
C17_SentinelIffEmpty ==
  (c.writeOpCode = NoOp) <=> (c.writePos = maxFrameHeaderSize)

(***************************************************************************)
(* C17, amended.  Between the calls of NextWriter, Write, WriteString and  *)
(* Close, writeOpCode = -1 implies that nothing is buffered, that is       *)
(* writePos = maxFrameHeaderSize, and writePos is never below              *)
(* maxFrameHeaderSize nor beyond the buffer.  The converse does not hold:  *)
(* after NextWriter, and after a Write that flushed all it had, a writer   *)
(* is active and nothing is buffered.                                      *)
(***************************************************************************)
C17_SentinelImpliesEmpty ==
  /\ c.writeOpCode = NoOp => c.writePos = maxFrameHeaderSize /\ c.writeBuf = <<>>
  /\ c.writePos >= maxFrameHeaderSize
  /\ c.writePos <= c.writeBufLen
  /\ c.writePos = maxFrameHeaderSize + Len(c.writeBuf)

\* Close has flushed the bytes that were buffered and has left no writer
C17_Witness ==
  /\ ret.op = "Close"
  /\ ret.err = Nil
  /\ Len(ret.was.writeBuf) > 0
  /\ ret.was.writeOpCode # NoOp
  /\ c.writeOpCode = NoOp
  /\ c.writePos = maxFrameHeaderSize

(***************************************************************************)
(* C18, as stated.  Whenever SendClose(code, reason) has returned nil, it  *)
(* has written one frame: first byte 0x88, a length byte that is 2 +       *)
(* len(reason) and at most 125, and the payload BE16(code) followed by the *)
(* reason, so that the bytes parse back as one unmasked final Close frame  *)
(* with that code and reason; closeSent is true.  The code puts            *)
(* byte(len(reason) + 2) in the length byte whatever the length is.        *)
(***************************************************************************)
C18_CloseFrameValid ==
  ret.op = "SendClose" /\ ret.err = Nil =>
     /\ Len(ret.out) = 4 + Len(ret.message)
     /\ ret.out[1] = finalBit + OpClose
     /\ ret.out[2] = 2 + Len(ret.message)
     /\ ret.out[2] <= maxControlFramePayloadSize
     /\ ParseFrames(ret.out) = << WireFrame(OpClose, BE16(ret.closeCode) \o ret.message) >>
     /\ c.closeSent

(***************************************************************************)
(* C19.  A run of NextReader that got to a Pong of the peer has returned   *)
(* Pong with the unmasked payload of that frame, empty or not, and has     *)
(* left savedPong empty.  A run of Read that got to a Pong has it in       *)
(* savedPong, whatever was saved before.  NextReader called with a Pong    *)
(* saved returns that payload as Pong without reading the transport and    *)
(* leaves savedPong empty: after NextReader no Pong is saved, so none is   *)
(* delivered twice.                                                        *)
(***************************************************************************)
PongParsed == GotFrame /\ ret.frame.f.op = OpPong /\ ValidControl(ret.frame.f)

C19_PongDelivery ==
  /\ PongParsed /\ ret.op = "NextReader" =>
        /\ ret.st = "ret"
        /\ ret.err = Nil
        /\ ret.opCode = OpPong
        /\ ret.data = ret.frame.f.plain
        /\ ret.n = Len(ret.frame.f.plain)
  /\ PongParsed /\ ret.op = "Read" =>
        /\ c.hasPong
        /\ c.savedPong = ret.frame.f.plain
  /\ ret.op = "NextReader" /\ ret.was.hasPong =>
        /\ ret.st = "ret"
        /\ ret.err = Nil
        /\ ret.opCode = OpPong
        /\ ret.data = ret.was.savedPong
        /\ ret.brSame
        /\ ret.adv = <<>>
  /\ ret.op = "NextReader" => ~c.hasPong /\ c.savedPong = <<>>

\* NextReader has returned the Pong that Read saved while the message was not
\* at its end
C19_Witness ==
  /\ ret.op = "NextReader"
  /\ ret.was.hasPong
  /\ ret.was.savedPong = Pay(2)
  /\ ret.data = Pay(2)
  /\ ~c.readFinal
  /\ Len(c.br) > 0

\* Read has saved a Pong over the one saved before
C19_Overwritten ==
  /\ PongParsed
  /\ ret.op = "Read"
  /\ ret.was.hasPong
  /\ ret.was.savedPong # c.savedPong

(***************************************************************************)
(* C20.  NextReader and Read, with the Pong and Close they write inline,   *)
(* leave writeBuf, writePos, writeOpCode and writeSeq as they were;        *)
(* NextWriter, Write, WriteString, Close and SendClose leave readErr,      *)
(* readLength, readFinal, readSeq, savedPong, maskPos and maskKey as they  *)
(* were, also when they fail.  A read method changes closeSent and the     *)
(* transport only through Conn.write.                                      *)
(***************************************************************************)
C20_DisjointState ==
  /\ ret.op \in ReadOps =>
        /\ ret.writerSame
        /\ ~ret.closeSentSame \/ ret.out # <<>> => ret.nwrite > 0
  /\ ret.op \in WriteOps =>
        /\ ret.readerSame
        /\ ret.brSame
        /\ ~ret.closeSentSame \/ ret.out # <<>> => ret.nwrite > 0

\* Read has written a Pong between the frames of the message it reads while
\* the writer had bytes buffered
C20_Witness ==
  /\ ret.op = "Read"
  /\ ParseFrames(ret.out) = << WireFrame(OpPong, Pay(2)) >>
  /\ c.writePos > maxFrameHeaderSize
  /\ c.writeOpCode # NoOp
  /\ ~c.readFinal

\* WriteString has failed on the transport while a message was being read
C20_WriteFailed ==
  /\ ret.op = "WriteString"
  /\ ret.err = ErrTransport
  /\ ~c.readFinal
  /\ c.readErr = Nil

(***************************************************************************)
(* C21.  Once a Write or WriteString on the handle of a Text or Binary     *)
(* message has failed in a non-final flush (Conn.write returned the error  *)
(* of the transport or ErrCloseSent), no later Write, WriteString or Close *)
(* on that handle writes a byte of the message to the transport.           *)
(***************************************************************************)
DataMessage == wmsg.op \in {OpText, OpBinary}

C21_NoFrameAfterFailedFlush == DataMessage => wmsg.late = <<>>

(***************************************************************************)
(* C22.  Read never stops the program with "unexpected text or binary      *)
(* frame": a run of Read calls advanceFrame only when it found readFinal   *)
(* false, no advanceFrame call of the run returns Text or Binary, and a    *)
(* Text or Binary header that the run got to is answered with the protocol *)
(* error "message start before final message frame" and opcode -1, which   *)
(* Read returns and readErr keeps.                                         *)
(***************************************************************************)
MessageStart == ErrProtocol("message start before final message frame")

StartInsideMessage ==
  /\ GotFrame
  /\ ret.op = "Read"
  /\ ret.frame.f.op \in {OpText, OpBinary}
  /\ ret.frame.f.rsv = 0

C22_ReadNeverAborts ==
  /\ c.panic # "unexpected text or binary frame"
  /\ ret.op = "Read" =>
        /\ ret.st # "panic"
        /\ ret.adv # <<>> => ~ret.was.readFinal
        /\ \A i \in DOMAIN ret.adv : ret.adv[i].op \notin {OpText, OpBinary}
  /\ StartInsideMessage =>
        /\ ret.adv[Len(ret.adv)] = [op |-> NoOp, err |-> MessageStart]
        /\ ret.st = "ret"
        /\ ret.err = MessageStart
        /\ c.readErr = MessageStart

\* Read has got to a Text frame after the first, non-final frame of its
\* message
C22_Witness ==
  /\ StartInsideMessage
  /\ ~ret.was.readFinal
  /\ ret.frame.f.op = OpText
  /\ ret.err = MessageStart
  /\ ret.seq = c.readSeq

(***************************************************************************)
(* C23.  On a connection made with any writeBufSize, 0 included, and a     *)
(* transport that works, every Write and WriteString on a valid handle     *)
(* returns, and every frame it has written carries at least one byte of    *)
(* payload.                                                                *)
(***************************************************************************)
C23_WriteTerminates ==
  ret.op \in {"Write", "WriteString"} /\ ret.seq = ret.was.writeSeq =>
     /\ ret.err # Hang
     /\ \A i \in DOMAIN ParseFrames(ret.out) : ParseFrames(ret.out)[i].payload # <<>>

====
